---- MODULE Spec2Model ----
(***************************************************************************)
(* State-machine model of the portfolio site back end:                     *)
(*   - the versioned content store of src/database.js (draft / published   *)
(*     rows, publish, rollback, pruning),                                  *)
(*   - the single-document content store of src/unnamed/part_005,          *)
(*   - the HTTP handlers of src/server.js for register, login, logout,     *)
(*     follow / unfollow and /api/content.                                 *)
(*                                                                         *)
(* Collections are sequences or sets of records.  The rows of the          *)
(* versioned store are kept in the order of their updatedAt timestamps     *)
(* (oldest first): a write that sets updatedAt moves the row to the end.   *)
(***************************************************************************)
EXTENDS Integers, Sequences, FiniteSets, TLC

(***************************************************************************)
(* Bounds of the model.                                                    *)
(***************************************************************************)
\* Largest version number a row may get; creating operations stop there.
MaxVersion == 11

\* How many saveDraftContent and how many successful rollbackToVersion calls a
\* run explores.
MaxSaves == 1

MaxRollbacks == 1

\* The number of stored users of a run of the follow system.
MaxUsers == 3

\* The largest analytics.totalViews a run counts up to.
MaxViews == 4

\* The number of requests in flight at a time.
MaxProcs == 2

\* The number of blog posts a run creates.
MaxPosts == 3

\* The longest slug base: .slice(0, 80).
SlugLimit == 80

\* The number of tokens generateToken hands out in a run.
MaxTokens == 3

\* The number of published rows kept by the pruning step: .skip(10).
HistoryLimit == 10

VARIABLES
    isConnected,   \* database.js: let isConnected
    rows,          \* collection site_content_versions, ordered by updatedAt
    nextId,        \* the next _id the database hands out
    last,          \* the last completed call: its name, arguments and outcome
    calls,         \* how many bounded calls the run has made so far
    users,         \* collection users, in the order of creation (_id = index)
    cookies,       \* the signed cookies the browser holds
    resp,          \* the last HTTP request and the response it got
    nextToken,     \* generateToken(): the next fresh token
    adminMasterKey, \* process.env.ADMIN_MASTER_KEY || ''
    follows,       \* collection follows: the pairs <<followerId, followingId>>
    siteContent,   \* collection site_content: the value of key site_content
    dbModule,      \* the module ./database.js resolves to
    emailEnabled,  \* process.env.EMAIL_ENABLED === 'true'
    procs,         \* the requests in flight: where each one stands
    posts          \* collection blog_posts

storeVars == <<isConnected, rows, nextId, last, calls>>

httpVars == <<users, cookies, resp, nextToken, adminMasterKey>>

siteVars == <<follows, siteContent, dbModule, emailEnabled, procs, posts>>

vars == <<isConnected, rows, nextId, last, calls,
          users, cookies, resp, nextToken, adminMasterKey,
          follows, siteContent, dbModule, emailEnabled, procs, posts>>

(***************************************************************************)
(* Content documents.  A document has a body (what the editor wrote), a    *)
(* shape (the current schema or a legacy one) and the analytics.totalViews *)
(* counter.                                                                *)
(***************************************************************************)
Bodies == {"D", "A"}

Shapes == {"current", "legacy"}

Doc(b, s, v) == [body |-> b, shape |-> s, views |-> v]

defaultContent == Doc("D", "current", 0)

\* contentDefaults.js is not among the sources: the normaliser merges a
\* legacy shape into the default shape and keeps what the document says.
normalizeContent(c) == [c EXCEPT !.shape = "current"]

\* What callers pass to saveDraftContent.
DraftInputs == {Doc(b, s, 0) : b \in Bodies, s \in Shapes}

(***************************************************************************)
(* Rows of site_content_versions and the queries on them.                  *)
(***************************************************************************)
NewRow(id, st, v, d) ==
    [id |-> id, status |-> st, isActive |-> TRUE, version |-> v, data |-> d]

Max(S) == CHOOSE x \in S : \A y \in S : y <= x

\* The rows with an _id in ids, and the other rows, in updatedAt order.
Only(rs, ids) == SelectSeq(rs, LAMBDA r : r.id \in ids)

Without(rs, ids) == SelectSeq(rs, LAMBDA r : r.id \notin ids)

\* document.save(): the document's modified fields are written to the row
\* with its _id and, with timestamps on, the row gets a new updatedAt: it
\* becomes the most recently updated row.
saveDoc(rs, doc) == Without(rs, {doc.id}) \o << doc >>

\* A query that leaves out the status: findOne({isActive: true}).
ActiveRows_anyStatus(rs, st) == {rs[i] : i \in {j \in DOMAIN rs : rs[j].isActive}}

ActiveRows(rs, st) == {rs[i] : i \in {j \in DOMAIN rs : rs[j].status = st /\ rs[j].isActive}}

PublishedRows(rs) == SelectSeq(rs, LAMBDA r : r.status = "published")

\* A version counter that counts the rows instead of reading the versions.
getMaxVersion_countRows(rs) == Len(rs)

\* A version counter that always starts over.
getMaxVersion_zero(rs) == 0

\* getMaxVersion: the largest version of any row, 0 for an empty collection.
getMaxVersion(rs) ==
    IF rs = <<>> THEN 0 ELSE Max({rs[i].version : i \in DOMAIN rs})

\* A publish that forgets to deactivate the rows that were active.
DeactivatePublished_skipped(rs) == rs

\* updateMany({status:'published', isActive:true}, {$set:{isActive:false}}):
\* the rows matched are updated and, with timestamps on, get a new updatedAt.
DeactivatePublished(rs) ==
    LET ids == {r.id : r \in ActiveRows(rs, "published")}
        hit == Only(rs, ids)
    IN  Without(rs, ids) \o [i \in DOMAIN hit |-> [hit[i] EXCEPT !.isActive = FALSE]]

\* ensureContentSeed: with no active published row and no active draft, one
\* published and one draft row of version 1 holding the default content.
\* ids is the pair of fresh _ids the two creates get.
ensureContentSeed(rs, id) ==
    IF ActiveRows(rs, "published") # {} \/ ActiveRows(rs, "draft") # {}
    THEN rs
    ELSE rs \o << NewRow(id, "published", 1, normalizeContent(defaultContent)),
                  NewRow(id + 1, "draft", 1, normalizeContent(defaultContent)) >>

\* connectDB as the first statement of every exported function: it returns at
\* once when isConnected, and connects and seeds otherwise.
connectDB(rs, id) == IF isConnected THEN rs ELSE ensureContentSeed(rs, id)

IdsAfter(rs0, id) == id + (Len(rs0) - Len(rows))

\* The ids of the published rows beyond the HistoryLimit most recently
\* updated ones: find({status:'published'}).sort({updatedAt:-1}).skip(10).
oldPublished(rs) ==
    LET pub == PublishedRows(rs)
    IN  {pub[i].id : i \in 1..(Len(pub) - HistoryLimit)}

\* deleteMany({_id: {$in: ids}, isActive: false})
DeleteInactive(rs, ids) == SelectSeq(rs, LAMBDA r : ~(r.id \in ids /\ ~r.isActive))

\* The outcome of a call on the store: the error it threw ("" for none), and
\* for a call that returned the version and the data it was about.
Outcome(op, err, v, d) == [op |-> op, error |-> err, version |-> v, doc |-> d]

(***************************************************************************)
(* The exported operations of src/database.js, one call at a time.         *)
(***************************************************************************)
\* connectDB().catch(console.error) at module load.
Boot ==
    /\ ~isConnected
    /\ isConnected' = TRUE
    /\ rows' = ensureContentSeed(rows, nextId)
    /\ nextId' = IdsAfter(rows', nextId)
    /\ UNCHANGED <<last, calls>>
    /\ UNCHANGED <<httpVars, siteVars>>

\* The process stops and is started again; the database keeps its rows.
Restart ==
    /\ isConnected
    /\ isConnected' = FALSE
    /\ UNCHANGED <<rows, nextId, last, calls>>
    /\ UNCHANGED <<httpVars, siteVars>>

saveDraftContent(content) ==
    LET rs0 == connectDB(rows, nextId)
        id0 == IdsAfter(rs0, nextId)
        normalized == normalizeContent(content)
        drafts == ActiveRows(rs0, "draft")
    IN  /\ UNCHANGED <<httpVars, siteVars>>
        /\ calls.saves < MaxSaves
        /\ calls' = [calls EXCEPT !.saves = @ + 1]
        /\ isConnected' = TRUE
        /\ IF drafts # {}
           THEN \E existingDraft \in drafts :
                  /\ rows' = saveDoc(rs0, [existingDraft EXCEPT !.data = normalized])
                  /\ nextId' = id0
                  /\ last' = Outcome("saveDraftContent", "", existingDraft.version, normalized)
           ELSE /\ getMaxVersion(rs0) < MaxVersion
                /\ rows' = Append(rs0, NewRow(id0, "draft", getMaxVersion(rs0) + 1, normalized))
                /\ nextId' = id0 + 1
                /\ last' = Outcome("saveDraftContent", "", getMaxVersion(rs0) + 1, normalized)

\* A rollback that creates the new row before it deactivates the active ones.
publishFromData_createFirst(rs, id, data) ==
    DeactivatePublished(
        Append(rs, NewRow(id, "published", getMaxVersion(rs) + 1, normalizeContent(data))))

\* A rollback that also writes the data into the active drafts.
publishFromData_intoDraft(rs, id, data) ==
    LET rs1 == DeactivatePublished(rs)
        rs2 == [i \in DOMAIN rs1 |->
                   IF rs1[i].status = "draft" /\ rs1[i].isActive
                   THEN [rs1[i] EXCEPT !.data = normalizeContent(data)] ELSE rs1[i]]
    IN  Append(rs2, NewRow(id, "published", getMaxVersion(rs2) + 1, normalizeContent(data)))

\* publishFromData: deactivate the active published rows, then create the
\* new active published row with the next version.
publishFromData(rs, id, data) ==
    LET rs1 == DeactivatePublished(rs)
    IN  Append(rs1, NewRow(id, "published", getMaxVersion(rs1) + 1, normalizeContent(data)))

publishDraftContent ==
    LET rs0 == connectDB(rows, nextId)
        id0 == IdsAfter(rs0, nextId)
        drafts == ActiveRows(rs0, "draft")
    IN  /\ UNCHANGED <<httpVars, siteVars>>
        /\ isConnected' = TRUE
        /\ UNCHANGED calls
        /\ IF drafts = {}
           THEN /\ rows' = rs0
                /\ nextId' = id0
                /\ last' = Outcome("publishDraftContent", "No active draft found", 0, defaultContent)
           ELSE \E draft \in drafts :
                  LET rs1 == DeactivatePublished(rs0)
                      publishedVersion == getMaxVersion(rs1) + 1
                      rs2 == Append(rs1, NewRow(id0, "published", publishedVersion,
                                                normalizeContent(draft.data)))
                      rs3 == saveDoc(rs2, [draft EXCEPT !.version = publishedVersion,
                                                        !.data = normalizeContent(draft.data)])
                  IN  /\ getMaxVersion(rs0) < MaxVersion
                      /\ rows' = DeleteInactive(rs3, oldPublished(rs3))
                      /\ nextId' = id0 + 1
                      /\ last' = Outcome("publishDraftContent", "", publishedVersion,
                                         normalizeContent(draft.data))

rollbackToVersion(version) ==
    LET rs0 == connectDB(rows, nextId)
        id0 == IdsAfter(rs0, nextId)
        targets == {rs0[i] : i \in {j \in DOMAIN rs0 :
                        rs0[j].status = "published" /\ rs0[j].version = version}}
    IN  /\ UNCHANGED <<httpVars, siteVars>>
        /\ isConnected' = TRUE
        /\ IF targets = {}
           THEN /\ rows' = rs0
                /\ nextId' = id0
                /\ last' = Outcome("rollbackToVersion", "Version not found", 0, defaultContent)
                /\ UNCHANGED calls
           ELSE \E target \in targets :
                  /\ getMaxVersion(rs0) < MaxVersion
                  /\ calls.rollbacks < MaxRollbacks
                  /\ calls' = [calls EXCEPT !.rollbacks = @ + 1]
                  /\ rows' = publishFromData(rs0, id0, target.data)
                  /\ nextId' = id0 + 1
                  /\ last' = Outcome("rollbackToVersion", "", version, target.data)

\* getActiveContent(status): the most recently updated active row, or null.
getActiveContent(rs, st) ==
    LET act == SelectSeq(rs, LAMBDA r : r.status = st /\ r.isActive)
    IN  IF act = <<>> THEN <<>> ELSE <<act[Len(act)]>>

\* Legacy getContent: the active published data, or the normalised default.
getContent(rs) ==
    LET published == getActiveContent(rs, "published")
    IN  IF published = <<>> THEN normalizeContent(defaultContent) ELSE published[1].data


(***************************************************************************)
(* Strings are sequences of characters, so that trimming and lower-casing  *)
(* are computed.  " " is white space, "<" stands for a script element.     *)
(***************************************************************************)
RECURSIVE TrimLeft(_), TrimRight(_)

TrimLeft(s) == IF s # <<>> /\ Head(s) = " " THEN TrimLeft(Tail(s)) ELSE s

TrimRight(s) ==
    IF s # <<>> /\ s[Len(s)] = " " THEN TrimRight(SubSeq(s, 1, Len(s) - 1)) ELSE s

\* String.prototype.trim
trim(s) == TrimRight(TrimLeft(s))

\* String.prototype.toLowerCase
toLowerCase(s) ==
    IF s = <<>> THEN <<>>
    ELSE [i \in 1..Len(s) |-> IF s[i] = "A" THEN "a" ELSE IF s[i] = "B" THEN "b" ELSE s[i]]

\* A normaliser that trims and keeps the case.
normalizeEmail_trimOnly(email) == IF email = <<>> THEN <<>> ELSE trim(email)

normalizeEmail(email) == IF email = <<>> THEN <<>> ELSE toLowerCase(trim(email))

sanitizeText(value) ==
    IF value = <<>> THEN <<>> ELSE trim(SelectSeq(value, LAMBDA ch : ch # "<"))

\* bcrypt.hash and bcrypt.compare: a hash matches the string it was made of.
bcryptHash(password) == [bcrypt |-> password]

bcryptCompare(password, hash) == hash = bcryptHash(password)

\* A comparison that looks at the lengths only.
safeCompareSecrets_lengthOnly(a, b) == Len(a) = Len(b)

\* safeCompareSecrets: false for different lengths, else timingSafeEqual.
safeCompareSecrets(a, b) == IF Len(a) # Len(b) THEN FALSE ELSE a = b

(***************************************************************************)
(* What the requests of a run submit.                                      *)
(***************************************************************************)
AdminEmail == <<"r">>

AdminPassword == <<"p">>

EmailInputs == { <<>>, <<"a">>, <<" ", "A">>, AdminEmail }

RegisterPasswords == { <<>>, <<"p">>, <<"p", " ">> }

LoginPasswords == { <<"p">>, <<"p", " ">>, <<"q">> }

NameInputs == { <<>>, <<"n">>, <<"<">> }

MasterKeyInputs == { <<>>, <<" ">>, <<"k">>, <<" ", "k">>, <<"x">> }

MasterKeyConfigs == { <<>>, <<"k">> }

(***************************************************************************)
(* Users and cookies.                                                      *)
(***************************************************************************)
NoHash == [bcrypt |-> <<"-">>]

NewUser(id, email, name, hash, isAdmin, isVerified, token) ==
    [id |-> id, email |-> email, name |-> name, password |-> hash,
     isAdmin |-> isAdmin, isVerified |-> isVerified,
     verificationTokenHash |-> token, resetTokenHash |-> 0, lastLoginAt |-> FALSE,
     followersCount |-> 0, followingCount |-> 0]

\* ensureAdmin with ADMIN_PASSWORD set, on an empty users collection.
ensureAdmin(us) ==
    IF \E i \in DOMAIN us : us[i].email = AdminEmail
    THEN us
    ELSE Append(us, NewUser(Len(us) + 1, AdminEmail, <<"n">>,
                            bcryptHash(AdminPassword), TRUE, TRUE, 0))

UserSet(us) == {us[i] : i \in DOMAIN us}

\* User.findOne({email}): email is unique.
findByEmail(us, email) == {u \in UserSet(us) : u.email = email}

NoCookies == [user_id |-> 0, user_name |-> <<>>, user_email |-> <<>>, admin_auth |-> ""]

setAuthCookies(user) ==
    [user_id |-> user.id, user_name |-> user.name, user_email |-> user.email,
     admin_auth |-> IF user.isAdmin THEN "true" ELSE "false"]

\* requireAuth: the user the signed user_id cookie names, if stored.
requireAuth(us, jar) == {u \in UserSet(us) : jar.user_id # 0 /\ u.id = jar.user_id}

\* A guard that lets every authenticated user pass.
requireAdmin_authOnly(us, jar) == IF requireAuth(us, jar) = {} THEN 401 ELSE 0

\* requireAuth followed by requireAdmin: 401, 403 or 0 (next()).
requireAdmin(us, jar) ==
    IF requireAuth(us, jar) = {} THEN 401
    ELSE IF \E u \in requireAuth(us, jar) : ~u.isAdmin THEN 403 ELSE 0

\* A request and the answer it got: the route, the body sent, the status code
\* and, of the JSON answer, the error field ("" when it has none) and the
\* success field: the handlers answer {success: false, error} with an error
\* status and {success: true, ...} otherwise.
Response(op, req, status, error) ==
    [op |-> op, req |-> req, status |-> status, error |-> error,
     success |-> IF status >= 400 THEN "false" ELSE "true"]

(***************************************************************************)
(* Mail.  sendMailSafe returns at once when mail is not enabled.  When it  *)
(* is, the message is sent inside try / catch, and the statement after the *)
(* catch reads isEmailEnabled, a name the file declares nowhere: the read  *)
(* throws a ReferenceError, whether the send failed or not.                *)
(***************************************************************************)
sendMailSafe(enabled, sendFails) ==
    IF ~enabled THEN "returned" ELSE "ReferenceError"

\* A request whose handler threw outside any try: the framework answers 500
\* or the request gets no answer (status 0), depending on its version.
Unhandled(op, req, status) ==
    [op |-> op, req |-> req, status |-> status, error |-> "", success |-> "absent"]

(***************************************************************************)
(* POST /api/register                                                      *)
(***************************************************************************)
Register(body) ==
    LET name == sanitizeText(body.name)
        email == normalizeEmail(body.email)
        password == trim(body.password)
    IN  /\ UNCHANGED <<storeVars, siteVars, cookies, adminMasterKey>>
        /\ IF name = <<>> \/ email = <<>> \/ password = <<>>
           THEN /\ resp' = Response("register", body, 400, "All fields are required")
                /\ UNCHANGED <<users, nextToken>>
           ELSE IF findByEmail(users, email) # {}
           THEN /\ resp' = Response("register", body, 400, "Email already exists")
                /\ UNCHANGED <<users, nextToken>>
           ELSE /\ users' = Append(users, NewUser(Len(users) + 1, email, name,
                                       bcryptHash(password), FALSE, FALSE, nextToken))
                /\ nextToken' = nextToken + 1
                /\ \E sendFails \in BOOLEAN :
                      resp' = IF sendMailSafe(emailEnabled, sendFails) = "returned"
                              THEN Response("register", body, 200, "")
                              ELSE Response("register", body, 500, "Server Error")

(***************************************************************************)
(* GET /api/verify-email                                                   *)
(***************************************************************************)
VerifyEmail(token) ==
    LET found == {u \in UserSet(users) : token # 0 /\ u.verificationTokenHash = token}
    IN  /\ UNCHANGED <<storeVars, siteVars, cookies, adminMasterKey, nextToken>>
        /\ IF token = 0
           THEN /\ resp' = Response("verify-email", token, 400, "Missing token")
                /\ UNCHANGED users
           ELSE IF found = {}
           THEN /\ resp' = Response("verify-email", token, 400, "Invalid or expired token")
                /\ UNCHANGED users
           ELSE \E user \in found :
                  /\ users' = [users EXCEPT ![user.id] =
                                  [@ EXCEPT !.isVerified = TRUE, !.verificationTokenHash = 0]]
                  /\ resp' = Response("verify-email", token, 200, "")

(***************************************************************************)
(* POST /api/login                                                         *)
(***************************************************************************)
\* A login that checks the password of user logins only.
loginChecks_adminSkipsPassword(user, type, masterKey, password, key) ==
    IF ~user.isVerified THEN 403
    ELSE IF user.password = NoHash THEN 400
    ELSE IF type = "admin"
         THEN IF ~user.isAdmin THEN 403
              ELSE IF key = <<>> THEN 500
              ELSE IF masterKey = <<>> \/ ~safeCompareSecrets(masterKey, key) THEN 403
              ELSE 200
    ELSE IF ~bcryptCompare(password, user.password) THEN 400
    ELSE 200

\* The checks of the handler on the user found, in the order of the code:
\* the status of the first one that answers, 200 when none does.
loginChecks(user, type, masterKey, password, key) ==
    IF ~user.isVerified THEN 403
    ELSE IF user.password = NoHash THEN 400
    ELSE IF type = "admin" /\ ~user.isAdmin THEN 403
    ELSE IF type = "admin" /\ key = <<>> THEN 500
    ELSE IF type = "admin" /\ (masterKey = <<>> \/ ~safeCompareSecrets(masterKey, key)) THEN 403
    ELSE IF ~bcryptCompare(password, user.password) THEN 400
    ELSE 200

Login(body) ==
    LET email == normalizeEmail(body.email)
        password == trim(body.password)
        type == body.type
        masterKey == trim(body.masterKey)
        found == findByEmail(users, email)
    IN  /\ UNCHANGED <<storeVars, siteVars, adminMasterKey, nextToken>>
        /\ IF found = {}
           THEN /\ resp' = Response("login", body, 400,
                                     IF type = "admin" THEN "Invalid credentials."
                                     ELSE "User not found. Please Sign Up.")
                /\ UNCHANGED <<users, cookies>>
           ELSE \E user \in found :
                  LET status == loginChecks(user, type, masterKey, password, adminMasterKey)
                  IN  IF status # 200
                      THEN /\ resp' = Response("login", body, status, "rejected")
                           /\ UNCHANGED <<users, cookies>>
                      ELSE /\ cookies' = setAuthCookies(user)
                           /\ users' = [users EXCEPT ![user.id].lastLoginAt = TRUE]
                           /\ resp' = Response("login", body, 200, "")

(***************************************************************************)
(* POST /api/logout                                                        *)
(***************************************************************************)
\* A logout that leaves the cookies in place.
Logout_keepsCookies ==
    /\ resp' = Response("logout", <<>>, 200, "")
    /\ UNCHANGED <<storeVars, siteVars, users, cookies, adminMasterKey, nextToken>>

Logout ==
    /\ cookies' = NoCookies
    /\ resp' = Response("logout", <<>>, 200, "")
    /\ UNCHANGED <<storeVars, siteVars, users, adminMasterKey, nextToken>>

\* A login of type 'user' sends no master key, as the login form does.
LoginBodies ==
    [email : EmailInputs, password : LoginPasswords, type : {"user"}, masterKey : {<<>>}]
    \cup
    [email : EmailInputs, password : LoginPasswords, type : {"admin"},
     masterKey : MasterKeyInputs]

RegisterBodies == [name : NameInputs, email : EmailInputs, password : RegisterPasswords]

HttpIdle ==
    /\ users = <<>>
    /\ cookies = NoCookies
    /\ resp = Response("none", <<>>, 0, "")
    /\ nextToken = 1
    /\ adminMasterKey = <<>>

StoreIdle ==
    /\ isConnected = FALSE
    /\ rows = <<>>
    /\ nextId = 1
    /\ last = Outcome("init", "", 0, defaultContent)
    /\ calls = [saves |-> 0, rollbacks |-> 0]

\* No follow edge, no site_content document.
SiteIdle ==
    /\ follows = {}
    /\ posts = {}
    /\ siteContent = <<>>
    /\ procs = <<>>

\* The server after connectDB has seeded the admin account.
AuthInit ==
    /\ StoreIdle
    /\ SiteIdle
    /\ dbModule = "single"
    /\ emailEnabled = FALSE
    /\ users = ensureAdmin(<<>>)
    /\ cookies = NoCookies
    /\ resp = Response("none", <<>>, 0, "")
    /\ nextToken = 1
    /\ adminMasterKey \in MasterKeyConfigs

AuthNext ==
    \/ \E body \in RegisterBodies : Register(body)
    \/ \E token \in 0..nextToken : VerifyEmail(token)
    \/ \E body \in LoginBodies : Login(body)
    \/ Logout

SpecAuth == AuthInit /\ [][AuthNext]_vars

StoreInit == StoreIdle /\ HttpIdle /\ SiteIdle /\ dbModule = "versioned" /\ emailEnabled = FALSE

StoreNext ==
    \/ Boot
    \/ Restart
    \/ \E c \in DraftInputs : saveDraftContent(c)
    \/ publishDraftContent
    \/ \E v \in 1..MaxVersion : rollbackToVersion(v)

SpecStore == StoreInit /\ [][StoreNext]_vars

\* A database that holds a published row and no draft, as ensureContentSeed
\* (which seeds only when neither is active) and saveDraftContent (which
\* creates the draft when none is active) provide for; not yet connected.
StoreNoDraftInit ==
    /\ HttpIdle
    /\ SiteIdle
    /\ dbModule = "versioned"
    /\ emailEnabled = FALSE
    /\ isConnected = FALSE
    /\ \E b \in Bodies : rows = << NewRow(1, "published", 1, normalizeContent(Doc(b, "current", 0))) >>
    /\ nextId = 2
    /\ last = Outcome("init", "", 0, defaultContent)
    /\ calls = [saves |-> 0, rollbacks |-> 0]

SpecStoreNoDraft == StoreNoDraftInit /\ [][StoreNext]_vars

(***************************************************************************)
(* Follow system.  An :id path parameter is a string: the 24 hex digits of *)
(* an ObjectId written in lower or in upper case, or anything else.        *)
(***************************************************************************)
IdParam(oid, hex) == [oid |-> oid, hex |-> hex]

\* ObjectId.prototype.toString: the hex digits in lower case.
toString(oid) == IdParam(oid, "lower")

\* mongoose.Types.ObjectId.isValid: 24 hex digits of either case.
isValidObjectId(value) == value.hex \in {"lower", "upper"}

\* The ObjectId a query or a create casts a valid string to.
castObjectId(value) == value.oid

\* User.findById(id)
findById(us, value) == {u \in UserSet(us) : u.id = castObjectId(value)}

\* User.updateOne({_id: oid}, {$inc: {[field]: by}})
incCount(us, oid, field, by) ==
    [i \in DOMAIN us |->
        IF us[i].id = oid THEN [us[i] EXCEPT ![field] = @ + by] ELSE us[i]]

\* The cookies of the browsers in use: one logged in as each user, and one
\* that is not logged in.
Sessions(us) == {setAuthCookies(u) : u \in UserSet(us)} \cup {NoCookies}

\* POST /api/follow/:id
Follow(jar, id) ==
    LET req == [jar |-> jar, id |-> id]
        auth == requireAuth(users, jar)
    IN  /\ UNCHANGED <<storeVars, cookies, adminMasterKey, nextToken, siteContent, dbModule, emailEnabled, procs, posts>>
        /\ IF auth = {}
           THEN /\ resp' = Response("follow", req, 401, "Not authenticated")
                /\ UNCHANGED <<users, follows>>
           ELSE \E me \in auth :
                  IF ~isValidObjectId(id)
                  THEN /\ resp' = Response("follow", req, 400, "Invalid user id")
                       /\ UNCHANGED <<users, follows>>
                  ELSE IF toString(me.id) = id
                  THEN /\ resp' = Response("follow", req, 400, "Cannot follow yourself")
                       /\ UNCHANGED <<users, follows>>
                  ELSE IF findById(users, id) = {}
                  THEN /\ resp' = Response("follow", req, 404, "User not found")
                       /\ UNCHANGED <<users, follows>>
                  ELSE IF <<me.id, castObjectId(id)>> \in follows
                  THEN /\ resp' = Response("follow", req, 400, "Already following")
                       /\ UNCHANGED <<users, follows>>
                  ELSE /\ follows' = follows \cup {<<me.id, castObjectId(id)>>}
                       /\ users' = incCount(incCount(users, me.id, "followingCount", 1),
                                            castObjectId(id), "followersCount", 1)
                       /\ resp' = Response("follow", req, 200, "")

\* DELETE /api/follow/:id
Unfollow(jar, id) ==
    LET req == [jar |-> jar, id |-> id]
        auth == requireAuth(users, jar)
    IN  /\ UNCHANGED <<storeVars, cookies, adminMasterKey, nextToken, siteContent, dbModule, emailEnabled, procs, posts>>
        /\ IF auth = {}
           THEN /\ resp' = Response("unfollow", req, 401, "Not authenticated")
                /\ UNCHANGED <<users, follows>>
           ELSE \E me \in auth :
                  IF ~isValidObjectId(id)
                  THEN /\ resp' = Response("unfollow", req, 400, "Invalid user id")
                       /\ UNCHANGED <<users, follows>>
                  ELSE /\ resp' = Response("unfollow", req, 200, "")
                       /\ IF <<me.id, castObjectId(id)>> \in follows
                          THEN /\ follows' = follows \ {<<me.id, castObjectId(id)>>}
                               /\ users' = incCount(incCount(users, me.id, "followingCount", -1),
                                                    castObjectId(id), "followersCount", -1)
                          ELSE UNCHANGED <<users, follows>>

\* The registered, verified members besides the admin: member i has the
\* e-mail address of i letters "a".
Members(n) ==
    [i \in 1..n |-> NewUser(i + 1, [k \in 1..i |-> "a"], <<"n">>,
                            bcryptHash(<<"p">>), FALSE, TRUE, 0)]

\* The ids requests name: every user's in both cases, one of no user, and a
\* string that is no ObjectId.
IdInputs ==
    {IdParam(o, h) : o \in 1..(MaxUsers + 1), h \in {"lower", "upper"}}
    \cup {IdParam(0, "other")}

\* The users have zero counts and there is no edge.
FollowInit ==
    /\ StoreIdle
    /\ SiteIdle
    /\ dbModule = "single"
    /\ emailEnabled = FALSE
    /\ users = ensureAdmin(<<>>) \o Members(MaxUsers - 1)
    /\ cookies = NoCookies
    /\ resp = Response("none", <<>>, 0, "")
    /\ nextToken = 1
    /\ adminMasterKey = <<"k">>

FollowNext ==
    \/ \E jar \in Sessions(users), id \in IdInputs : Follow(jar, id)
    \/ \E jar \in Sessions(users), id \in IdInputs : Unfollow(jar, id)

SpecFollow == FollowInit /\ [][FollowNext]_vars

(***************************************************************************)
(* /api/content.  server.js imports ./database.js, which is the versioned  *)
(* store of src/database.js or the single-document store of part_005:      *)
(* dbModule says which.  A content value read is a sequence of one         *)
(* document, or the empty sequence for null.                               *)
(***************************************************************************)
\* setContent of the versioned store is saveDraftContent: the rows after it
\* has written the normalised content into the active draft, or created one.
setContent(rs, id, newContent) ==
    LET normalized == normalizeContent(newContent)
        drafts == ActiveRows(rs, "draft")
    IN  IF drafts # {}
        THEN {saveDoc(rs, [existingDraft EXCEPT !.data = normalized]) : existingDraft \in drafts}
        ELSE {Append(rs, NewRow(id, "draft", getMaxVersion(rs) + 1, normalized))}

\* getContent of the single-document store: doc?.value || null
singleGetContent(doc) == doc

\* setContent of the single-document store: $set value, upsert.
singleSetContent(doc, newContent) == << newContent >>

\* db.getContent() of the module the server loaded.
dbGetContent(rs) ==
    IF dbModule = "versioned" THEN << getContent(rs) >> ELSE singleGetContent(siteContent)

\* db.setContent(newContent) of the module the server loaded.
dbSetContent(rs0, newContent) ==
    IF dbModule = "versioned"
    THEN /\ \E rs1 \in setContent(rs0, nextId + (Len(rs0) - Len(rows)), newContent) :
               /\ rows' = rs1
               /\ nextId' = nextId + (Len(rs1) - Len(rows))
         /\ UNCHANGED siteContent
    ELSE /\ siteContent' = singleSetContent(siteContent, newContent)
         /\ UNCHANGED <<rows, nextId>>

\* A request for content and its answer 200: body is the JSON document sent
\* back, as a sequence of one document, empty when the answer has none.  The
\* answer of GET is the document itself, the one of POST has success: true.
ContentResponse(op, req, status, body) ==
    [op |-> op, req |-> req, status |-> status, error |-> "", body |-> body,
     success |-> IF op = "POST /api/content" THEN "true" ELSE "absent"]

\* An error answer of the two content handlers: res.status(s).json({error}).
ContentError(op, req, status, error) ==
    [op |-> op, req |-> req, status |-> status, error |-> error, body |-> <<>>,
     success |-> "absent"]

\* GET /api/content
GetApiContent(jar) ==
    LET rs0 == connectDB(rows, nextId)
        found == dbGetContent(rs0)
    IN  /\ UNCHANGED <<last, calls, users, cookies, nextToken, adminMasterKey,
                       follows, dbModule, emailEnabled, procs, posts>>
        /\ isConnected' = TRUE
        /\ IF found = <<>>
           THEN /\ resp' = ContentError("GET /api/content", jar, 404, "Content not found")
                /\ UNCHANGED <<rows, nextId, siteContent>>
           ELSE IF jar.admin_auth = "true"
           THEN /\ resp' = ContentResponse("GET /api/content", jar, 200, found)
                /\ UNCHANGED <<rows, nextId, siteContent>>
           ELSE LET counted == [found[1] EXCEPT !.views = @ + 1]
                IN  /\ counted.views <= MaxViews
                    /\ dbSetContent(rs0, counted)
                    /\ resp' = ContentResponse("GET /api/content", jar, 200, <<counted>>)

\* POST /api/content: requireAuth, requireAdmin, then the handler.  A body
\* that is not a JSON object is not valid.
PostApiContent(jar, body) ==
    LET rs0 == connectDB(rows, nextId)
        req == [jar |-> jar, body |-> body]
        denied == requireAdmin(users, jar)
    IN  /\ UNCHANGED <<last, calls, users, cookies, nextToken, adminMasterKey,
                       follows, dbModule, emailEnabled, procs, posts>>
        /\ IF denied # 0
           THEN /\ resp' = Response("POST /api/content", req, denied,
                                     IF denied = 401 THEN "Not authenticated" ELSE "Admin only")
                /\ UNCHANGED <<isConnected, rows, nextId, siteContent>>
           ELSE IF ~body.valid
           THEN /\ resp' = ContentError("POST /api/content", req, 400, "Invalid content payload")
                /\ UNCHANGED <<isConnected, rows, nextId, siteContent>>
           ELSE /\ isConnected' = TRUE
                /\ dbSetContent(rs0, body.doc)
                /\ resp' = ContentResponse("POST /api/content", req, 200, <<>>)

\* What requests post: content documents of the current shape, and a body
\* that is no object.
ContentBodies ==
    {[valid |-> TRUE, doc |-> Doc(b, "current", 0)] : b \in Bodies}
    \cup {[valid |-> FALSE, doc |-> defaultContent]}

\* The server after connectDB of the module it loaded has run: the admin and
\* one member are stored, and the content is seeded.
ContentInit ==
    /\ dbModule \in {"versioned", "single"}
    /\ emailEnabled = FALSE
    /\ isConnected = TRUE
    /\ rows = IF dbModule = "versioned" THEN ensureContentSeed(<<>>, 1) ELSE <<>>
    /\ nextId = Len(rows) + 1
    /\ siteContent = IF dbModule = "versioned" THEN <<>> ELSE << defaultContent >>
    /\ last = Outcome("init", "", 0, defaultContent)
    /\ calls = [saves |-> 0, rollbacks |-> 0]
    /\ follows = {}
    /\ posts = {}
    /\ procs = <<>>
    /\ users = ensureAdmin(<<>>) \o Members(1)
    /\ cookies = NoCookies
    /\ resp = Response("none", <<>>, 0, "")
    /\ nextToken = 1
    /\ adminMasterKey = <<"k">>

ContentNext ==
    \/ \E jar \in Sessions(users) : GetApiContent(jar)
    \/ \E jar \in Sessions(users), body \in ContentBodies : PostApiContent(jar, body)

SpecContent == ContentInit /\ [][ContentNext]_vars

(***************************************************************************)
(* POST /api/register as concurrent requests.  A request runs up to an     *)
(* await, and other requests run before it goes on: one step is the code   *)
(* up to and including User.findOne, the next one the rest of the handler. *)
(***************************************************************************)
IdleProc == [pc |-> "idle"]

\* The users collection without the unique index on email.
emailIndexAllows_noIndex(us, email) == TRUE

\* UserSchema email: {unique: true, index: true}: the insert of a document
\* whose email is stored already fails with E11000.
emailIndexAllows(us, email) == findByEmail(us, email) = {}

\* Lines 474-485: the field checks and the existence check.
RegisterFind(p, body) ==
    LET name == sanitizeText(body.name)
        email == normalizeEmail(body.email)
        password == trim(body.password)
    IN  /\ procs[p].pc = "idle"
        /\ UNCHANGED <<storeVars, cookies, adminMasterKey, users, nextToken,
                       follows, siteContent, dbModule, emailEnabled, posts>>
        /\ IF name = <<>> \/ email = <<>> \/ password = <<>>
           THEN /\ resp' = Response("register", body, 400, "All fields are required")
                /\ UNCHANGED procs
           ELSE IF findByEmail(users, email) # {}
           THEN /\ resp' = Response("register", body, 400, "Email already exists")
                /\ UNCHANGED procs
           ELSE /\ procs' = [procs EXCEPT ![p] =
                                [pc |-> "create", body |-> body, name |-> name,
                                 email |-> email, password |-> password]]
                /\ UNCHANGED resp

\* Lines 487-509: hash, token, User.create, mail, answer; an exception of
\* User.create is caught and answered 500.
RegisterCreate(p) ==
    LET r == procs[p]
    IN  /\ r.pc = "create"
        /\ procs' = [procs EXCEPT ![p] = IdleProc]
        /\ UNCHANGED <<storeVars, cookies, adminMasterKey, follows, siteContent, dbModule, emailEnabled, posts>>
        /\ IF emailIndexAllows(users, r.email)
           THEN /\ users' = Append(users, NewUser(Len(users) + 1, r.email, r.name,
                                       bcryptHash(r.password), FALSE, FALSE, nextToken))
                /\ nextToken' = nextToken + 1
                /\ \E sendFails \in BOOLEAN :
                      resp' = IF sendMailSafe(emailEnabled, sendFails) = "returned"
                              THEN Response("register", r.body, 200, "")
                              ELSE Response("register", r.body, 500, "Server Error")
           ELSE /\ resp' = Response("register", r.body, 500, "Server Error")
                /\ UNCHANGED <<users, nextToken>>

\* The bodies of concurrent registrations: two spellings of one address, a
\* second address, the admin's address.
RaceBodies ==
    [name : {<<"n">>}, email : {<<"a">>, <<" ", "A">>, <<"b">>, AdminEmail},
     password : {<<"p">>}]

RegisterRaceInit ==
    /\ StoreIdle
    /\ follows = {}
    /\ posts = {}
    /\ siteContent = <<>>
    /\ dbModule = "single"
    /\ emailEnabled = FALSE
    /\ procs = [p \in 1..MaxProcs |-> IdleProc]
    /\ users = ensureAdmin(<<>>)
    /\ cookies = NoCookies
    /\ resp = Response("none", <<>>, 0, "")
    /\ nextToken = 1
    /\ adminMasterKey = <<"k">>

RegisterRaceNext ==
    \/ \E p \in 1..MaxProcs, body \in RaceBodies : RegisterFind(p, body)
    \/ \E p \in 1..MaxProcs : RegisterCreate(p)

SpecRegisterRace == RegisterRaceInit /\ [][RegisterRaceNext]_vars

(***************************************************************************)
(* Blog posts.  A title is a string of the characters "a", "A", "b", "2",  *)
(* "-", "!", " " and "<"; a slug is computed from it as the code does.     *)
(***************************************************************************)
Digits == <<"0", "1", "2", "3", "4", "5", "6", "7", "8", "9">>

IsAlnum(ch) == ch \in {"a", "b"} \/ \E d \in DOMAIN Digits : Digits[d] = ch

RECURSIVE numberString(_), dropNonAlnum(_), replaceNonAlnum(_)

\* The decimal digits of a counter, as the template string writes them.
numberString(n) ==
    IF n < 10 THEN << Digits[n + 1] >>
    ELSE numberString(n \div 10) \o << Digits[(n % 10) + 1] >>

dropNonAlnum(s) ==
    IF s # <<>> /\ ~IsAlnum(Head(s)) THEN dropNonAlnum(Tail(s)) ELSE s

\* .replace(/[^a-z0-9]+/g, '-'): every run of other characters becomes "-".
replaceNonAlnum(s) ==
    IF s = <<>> THEN <<>>
    ELSE IF IsAlnum(Head(s)) THEN << Head(s) >> \o replaceNonAlnum(Tail(s))
    ELSE << "-" >> \o replaceNonAlnum(dropNonAlnum(s))

\* .replace(/(^-|-$)+/g, ''): a "-" at the start and one at the end go.
stripDashes(s) ==
    LET a == IF s # <<>> /\ Head(s) = "-" THEN Tail(s) ELSE s
    IN  IF a # <<>> /\ a[Len(a)] = "-" THEN SubSeq(a, 1, Len(a) - 1) ELSE a

slugifyTitle(title) ==
    LET s == stripDashes(replaceNonAlnum(toLowerCase(sanitizeText(title))))
    IN  SubSeq(s, 1, IF Len(s) < SlugLimit THEN Len(s) ELSE SlugLimit)

\* BlogPost.exists({slug, _id: {$ne: excludeId}}); excludeId 0 is none.
slugExists(ps, slug, excludeId) ==
    \E q \in ps : q.slug = slug /\ (excludeId = 0 \/ q.id # excludeId)

RECURSIVE nextFreeSlug(_, _, _, _, _)

\* The loop of generateUniqueSlug from the candidate slug on.
nextFreeSlug(ps, base, slug, counter, excludeId) ==
    IF ~slugExists(ps, slug, excludeId) THEN slug
    ELSE nextFreeSlug(ps, base, base \o << "-" >> \o numberString(counter + 1),
                      counter + 1, excludeId)

\* A slug generator that never looks at the stored posts.
generateUniqueSlug_baseOnly(ps, title, excludeId) ==
    IF slugifyTitle(title) = <<>> THEN <<"p", "o", "s", "t">> ELSE slugifyTitle(title)

generateUniqueSlug(ps, title, excludeId) ==
    LET base == IF slugifyTitle(title) = <<>> THEN <<"p", "o", "s", "t">>
                ELSE slugifyTitle(title)
    IN  nextFreeSlug(ps, base, base, 1, excludeId)

NewPost(id, title, slug, authorId) ==
    [id |-> id, title |-> title, slug |-> slug, authorId |-> authorId]

\* A blog request and its answer.
BlogResponse(op, jar, id, body, status, error) ==
    Response(op, [jar |-> jar, id |-> id, body |-> body], status, error)

\* POST /api/admin/blog
CreateBlog(jar, body) ==
    LET denied == requireAdmin(users, jar)
        title == sanitizeText(body.title)
        summary == sanitizeText(body.summary)
    IN  /\ UNCHANGED <<isConnected, rows, last, calls, users, cookies, nextToken,
                       adminMasterKey, follows, siteContent, dbModule, emailEnabled, procs>>
        /\ IF denied # 0
           THEN /\ resp' = BlogResponse("POST /api/admin/blog", jar, 0, body, denied,
                                        IF denied = 401 THEN "Not authenticated" ELSE "Admin only")
                /\ UNCHANGED <<posts, nextId>>
           ELSE IF title = <<>> \/ summary = <<>>
           THEN /\ resp' = BlogResponse("POST /api/admin/blog", jar, 0, body, 400,
                                        "Title, summary, and content are required.")
                /\ UNCHANGED <<posts, nextId>>
           ELSE \E me \in requireAuth(users, jar) :
                  /\ nextId <= MaxPosts
                  /\ posts' = posts \cup
                        {NewPost(nextId, title, generateUniqueSlug(posts, title, 0), me.id)}
                  /\ nextId' = nextId + 1
                  /\ resp' = BlogResponse("POST /api/admin/blog", jar, 0, body, 200, "")

\* PATCH /api/admin/blog/:id, retitling; a body without a title gives no
\* updates.
UpdateBlog(jar, id, body) ==
    LET denied == requireAdmin(users, jar)
        title == sanitizeText(body.title)
        oid == castObjectId(id)
    IN  /\ UNCHANGED <<isConnected, rows, nextId, last, calls, users, cookies, nextToken,
                       adminMasterKey, follows, siteContent, dbModule, emailEnabled, procs>>
        /\ IF denied # 0
           THEN /\ resp' = BlogResponse("PATCH /api/admin/blog", jar, id, body, denied,
                                        IF denied = 401 THEN "Not authenticated" ELSE "Admin only")
                /\ UNCHANGED posts
           ELSE IF ~isValidObjectId(id)
           THEN /\ resp' = BlogResponse("PATCH /api/admin/blog", jar, id, body, 400, "Invalid blog id")
                /\ UNCHANGED posts
           ELSE IF body.title = <<>>
           THEN /\ resp' = BlogResponse("PATCH /api/admin/blog", jar, id, body, 400, "No updates provided")
                /\ UNCHANGED posts
           ELSE /\ posts' = {IF q.id # oid THEN q
                             ELSE IF title = <<>> THEN [q EXCEPT !.title = title]
                             ELSE [q EXCEPT !.title = title,
                                            !.slug = generateUniqueSlug(posts, title, oid)]
                             : q \in posts}
                /\ resp' = BlogResponse("PATCH /api/admin/blog", jar, id, body, 200, "")

\* DELETE /api/admin/blog/:id
DeleteBlog(jar, id) ==
    LET denied == requireAdmin(users, jar)
    IN  /\ UNCHANGED <<isConnected, rows, nextId, last, calls, users, cookies, nextToken,
                       adminMasterKey, follows, siteContent, dbModule, emailEnabled, procs>>
        /\ IF denied # 0
           THEN /\ resp' = BlogResponse("DELETE /api/admin/blog", jar, id, <<>>, denied,
                                        IF denied = 401 THEN "Not authenticated" ELSE "Admin only")
                /\ UNCHANGED posts
           ELSE IF ~isValidObjectId(id)
           THEN /\ resp' = BlogResponse("DELETE /api/admin/blog", jar, id, <<>>, 400, "Invalid blog id")
                /\ UNCHANGED posts
           ELSE /\ posts' = {q \in posts : q.id # castObjectId(id)}
                /\ resp' = BlogResponse("DELETE /api/admin/blog", jar, id, <<>>, 200, "")

TitleInputs == { <<>>, <<"a">>, <<"A", "!">>, <<"a", "-", "2">> }

BlogBodies == [title : TitleInputs, summary : {<<"s">>}]
                  \cup {[title |-> <<"a">>, summary |-> <<>>]}

BlogIds == {IdParam(o, "lower") : o \in 1..MaxPosts} \cup {IdParam(0, "other")}

\* The sessions blog requests come with: the admin's, a member's, a cookie
\* naming a user that is not stored, and none.
BlogSessions ==
    Sessions(users) \cup {[user_id |-> Len(users) + 1, user_name |-> <<"n">>,
                           user_email |-> <<"z">>, admin_auth |-> "true"]}

BlogInit ==
    /\ StoreIdle
    /\ follows = {}
    /\ posts = {}
    /\ siteContent = <<>>
    /\ procs = <<>>
    /\ dbModule = "single"
    /\ emailEnabled = FALSE
    /\ users = ensureAdmin(<<>>) \o Members(1)
    /\ cookies = NoCookies
    /\ resp = Response("none", <<>>, 0, "")
    /\ nextToken = 1
    /\ adminMasterKey = <<"k">>

BlogNext ==
    \/ \E jar \in BlogSessions, body \in BlogBodies : CreateBlog(jar, body)
    \/ \E jar \in BlogSessions, id \in BlogIds, body \in BlogBodies : UpdateBlog(jar, id, body)
    \/ \E jar \in BlogSessions, id \in BlogIds : DeleteBlog(jar, id)

SpecBlog == BlogInit /\ [][BlogNext]_vars

(***************************************************************************)
(* publishDraftContent and rollbackToVersion as concurrent requests on the *)
(* versioned store: one step per awaited database call.                    *)
(***************************************************************************)
Proc(pc, op, doc, version, ids) ==
    [pc |-> pc, op |-> op, doc |-> doc, version |-> version, ids |-> ids]

DoneProc(op, err) == [pc |-> "done", op |-> op, error |-> err]

PublishIdle ==
    UNCHANGED <<isConnected, last, calls, httpVars, follows, siteContent, dbModule, emailEnabled, posts>>

\* publishDraftContent, line 135: findOne({status:'draft', isActive:true}).
PublishFindDraft(p) ==
    /\ procs[p].pc = "idle"
    /\ PublishIdle
    /\ UNCHANGED <<rows, nextId>>
    /\ IF ActiveRows(rows, "draft") = {}
       THEN procs' = [procs EXCEPT ![p] = DoneProc("publishDraftContent", "No active draft found")]
       ELSE \E draft \in ActiveRows(rows, "draft") :
              procs' = [procs EXCEPT ![p] =
                           Proc("deactivate", "publishDraftContent", draft, 0, {})]

\* rollbackToVersion, line 169: findOne({status:'published', version}).
RollbackFindTarget(p, version) ==
    LET targets == {rows[i] : i \in {j \in DOMAIN rows :
                        rows[j].status = "published" /\ rows[j].version = version}}
    IN  /\ procs[p].pc = "idle"
        /\ PublishIdle
        /\ UNCHANGED <<rows, nextId>>
        /\ IF targets = {}
           THEN procs' = [procs EXCEPT ![p] = DoneProc("rollbackToVersion", "Version not found")]
           ELSE \E target \in targets :
                  procs' = [procs EXCEPT ![p] =
                               Proc("deactivate", "rollbackToVersion", target, 0, {})]

\* Lines 138 and 176: updateMany published active rows to isActive false.
PublishDeactivate(p) ==
    /\ procs[p].pc = "deactivate"
    /\ PublishIdle
    /\ rows' = DeactivatePublished(rows)
    /\ UNCHANGED nextId
    /\ procs' = [procs EXCEPT ![p].pc = "getMaxVersion"]

\* Lines 140 and 177: (await getMaxVersion()) + 1.
PublishGetMaxVersion(p) ==
    /\ procs[p].pc = "getMaxVersion"
    /\ PublishIdle
    /\ UNCHANGED <<rows, nextId>>
    /\ procs' = [procs EXCEPT ![p].pc = "create", ![p].version = getMaxVersion(rows) + 1]

\* Lines 141-147 and 178-184: create the new active published row.
PublishCreate(p) ==
    /\ procs[p].pc = "create"
    /\ PublishIdle
    /\ rows' = Append(rows, NewRow(nextId, "published", procs[p].version,
                                   normalizeContent(procs[p].doc.data)))
    /\ nextId' = nextId + 1
    /\ procs' = [procs EXCEPT ![p] =
                    IF procs[p].op = "rollbackToVersion"
                    THEN DoneProc("rollbackToVersion", "")
                    ELSE [procs[p] EXCEPT !.pc = "saveDraft"]]

\* Lines 149-151: draft.save() writes the two modified fields of the draft.
PublishSaveDraft(p) ==
    LET cur == Only(rows, {procs[p].doc.id})
    IN  /\ procs[p].pc = "saveDraft"
        /\ PublishIdle
        /\ rows' = IF cur = <<>> THEN rows
                   ELSE saveDoc(rows, [cur[1] EXCEPT !.version = procs[p].version,
                                            !.data = normalizeContent(procs[p].doc.data)])
        /\ UNCHANGED nextId
        /\ procs' = [procs EXCEPT ![p].pc = "findOld"]

\* Line 153: the published rows beyond the ten most recently updated.
PublishFindOld(p) ==
    /\ procs[p].pc = "findOld"
    /\ PublishIdle
    /\ UNCHANGED <<rows, nextId>>
    /\ procs' = [procs EXCEPT ![p] =
                    IF oldPublished(rows) = {} THEN DoneProc("publishDraftContent", "")
                    ELSE [procs[p] EXCEPT !.pc = "deleteOld", !.ids = oldPublished(rows)]]

\* Lines 154-157: deleteMany of the inactive ones among them.
PublishDeleteOld(p) ==
    /\ procs[p].pc = "deleteOld"
    /\ PublishIdle
    /\ rows' = DeleteInactive(rows, procs[p].ids)
    /\ UNCHANGED nextId
    /\ procs' = [procs EXCEPT ![p] = DoneProc("publishDraftContent", "")]

\* The store with SeedVersions versions published one after the other, the
\* server connected, and MaxProcs requests about to start.
RECURSIVE publishedTimes(_, _, _)

publishedTimes(rs, id, n) ==
    IF n = 0 THEN rs
    ELSE LET draft == CHOOSE d \in ActiveRows(rs, "draft") : TRUE
             rs2 == publishFromData(rs, id, draft.data)
             rs3 == saveDoc(rs2, [draft EXCEPT !.version = getMaxVersion(rs2)])
         IN  publishedTimes(DeleteInactive(rs3, oldPublished(rs3)), id + 1, n - 1)

PublishRaceInit ==
    /\ isConnected = TRUE
    /\ \E n \in {0, HistoryLimit} :
          /\ rows = publishedTimes(ensureContentSeed(<<>>, 1), 3, n)
          /\ nextId = 3 + n
    /\ last = Outcome("init", "", 0, defaultContent)
    /\ calls = [saves |-> 0, rollbacks |-> 0]
    /\ HttpIdle
    /\ follows = {}
    /\ posts = {}
    /\ siteContent = <<>>
    /\ dbModule = "versioned"
    /\ emailEnabled = FALSE
    /\ procs = [p \in 1..MaxProcs |-> IdleProc]

PublishRaceNext ==
    \/ \E p \in 1..MaxProcs : PublishFindDraft(p)
    \/ \E p \in 1..MaxProcs, v \in 1..2 : RollbackFindTarget(p, v)
    \/ \E p \in 1..MaxProcs : PublishDeactivate(p)
    \/ \E p \in 1..MaxProcs : PublishGetMaxVersion(p)
    \/ \E p \in 1..MaxProcs : PublishCreate(p)
    \/ \E p \in 1..MaxProcs : PublishSaveDraft(p)
    \/ \E p \in 1..MaxProcs : PublishFindOld(p)
    \/ \E p \in 1..MaxProcs : PublishDeleteOld(p)

SpecPublishRace == PublishRaceInit /\ [][PublishRaceNext]_vars

(***************************************************************************)
(* connectDB entered by several callers: the call at module load and the   *)
(* first requests.  One step per awaited call.                             *)
(***************************************************************************)
SeedProc(pc, found) == [pc |-> pc, op |-> "connectDB", found |-> found]

SeedIdle ==
    UNCHANGED <<nextToken, last, calls, cookies, resp, adminMasterKey, follows,
                dbModule, emailEnabled, posts>>

\* if (isConnected) return; else mongoose.connect is awaited.
ConnectEnter(p) ==
    /\ procs[p].pc = "idle"
    /\ SeedIdle
    /\ UNCHANGED <<isConnected, rows, nextId, siteContent, users>>
    /\ procs' = [procs EXCEPT ![p] =
                    IF isConnected THEN DoneProc("connectDB", "")
                    ELSE SeedProc("connect", FALSE)]

\* The connection is there: isConnected = true, then ensureAdmin.
ConnectDone(p) ==
    /\ procs[p].pc = "connect"
    /\ SeedIdle
    /\ isConnected' = TRUE
    /\ users' = ensureAdmin(users)
    /\ UNCHANGED <<rows, nextId, siteContent>>
    /\ procs' = [procs EXCEPT ![p] =
                    SeedProc(IF dbModule = "versioned" THEN "findPublished" ELSE "findDoc", FALSE)]

\* database.js line 78: findOne({status:'published', isActive:true}).
SeedFindPublished(p) ==
    /\ procs[p].pc = "findPublished"
    /\ SeedIdle
    /\ UNCHANGED <<isConnected, rows, nextId, siteContent, users>>
    /\ procs' = [procs EXCEPT ![p] =
                    SeedProc("findDraft", ActiveRows(rows, "published") # {})]

\* database.js lines 79-80: findOne draft; return when either was found.
SeedFindDraft(p) ==
    /\ procs[p].pc = "findDraft"
    /\ SeedIdle
    /\ UNCHANGED <<isConnected, rows, nextId, siteContent, users>>
    /\ procs' = [procs EXCEPT ![p] =
                    IF procs[p].found \/ ActiveRows(rows, "draft") # {}
                    THEN DoneProc("connectDB", "")
                    ELSE SeedProc("createPublished", FALSE)]

\* database.js lines 82-88.
SeedCreatePublished(p) ==
    /\ procs[p].pc = "createPublished"
    /\ SeedIdle
    /\ UNCHANGED <<isConnected, siteContent, users>>
    /\ rows' = Append(rows, NewRow(nextId, "published", 1, normalizeContent(defaultContent)))
    /\ nextId' = nextId + 1
    /\ procs' = [procs EXCEPT ![p] = SeedProc("createDraft", FALSE)]

\* database.js lines 89-95.
SeedCreateDraft(p) ==
    /\ procs[p].pc = "createDraft"
    /\ SeedIdle
    /\ UNCHANGED <<isConnected, siteContent, users>>
    /\ rows' = Append(rows, NewRow(nextId, "draft", 1, normalizeContent(defaultContent)))
    /\ nextId' = nextId + 1
    /\ procs' = [procs EXCEPT ![p] = DoneProc("connectDB", "")]

\* part_005 lines 144-145: Content.findOne({key: "site_content"}).
SeedFindDoc(p) ==
    /\ procs[p].pc = "findDoc"
    /\ SeedIdle
    /\ UNCHANGED <<isConnected, rows, nextId, siteContent, users>>
    /\ procs' = [procs EXCEPT ![p] =
                    IF siteContent # <<>> THEN DoneProc("connectDB", "")
                    ELSE SeedProc("createDoc", FALSE)]

\* part_005 lines 158-161: Content.create; key has a unique index, so the
\* create of a second document with the key throws.
SeedCreateDoc(p) ==
    /\ procs[p].pc = "createDoc"
    /\ SeedIdle
    /\ UNCHANGED <<isConnected, rows, nextId, users>>
    /\ IF siteContent # <<>>
       THEN /\ procs' = [procs EXCEPT ![p] = DoneProc("connectDB", "E11000")]
            /\ UNCHANGED siteContent
       ELSE /\ procs' = [procs EXCEPT ![p] = DoneProc("connectDB", "")]
            /\ siteContent' = << defaultContent >>

\* A process start with the database empty or holding content, for either
\* database module.
SeedRaceInit ==
    /\ dbModule \in {"versioned", "single"}
    /\ emailEnabled = FALSE
    /\ isConnected = FALSE
    /\ \E present \in BOOLEAN :
          /\ rows = IF dbModule = "versioned" /\ present
                    THEN ensureContentSeed(<<>>, 1) ELSE <<>>
          /\ siteContent = IF dbModule = "single" /\ present
                           THEN << Doc("A", "current", 0) >> ELSE <<>>
    /\ nextId = Len(rows) + 1
    /\ last = Outcome("init", "", 0, defaultContent)
    /\ calls = [saves |-> 0, rollbacks |-> 0]
    /\ users \in {<<>>, ensureAdmin(<<>>)}
    /\ cookies = NoCookies
    /\ resp = Response("none", <<>>, 0, "")
    /\ nextToken = 1
    /\ adminMasterKey = <<"k">>
    /\ follows = {}
    /\ posts = {}
    /\ procs = [p \in 1..MaxProcs |-> IdleProc]

SeedRaceNext ==
    \/ \E p \in 1..MaxProcs : ConnectEnter(p)
    \/ \E p \in 1..MaxProcs : ConnectDone(p)
    \/ \E p \in 1..MaxProcs : SeedFindPublished(p)
    \/ \E p \in 1..MaxProcs : SeedFindDraft(p)
    \/ \E p \in 1..MaxProcs : SeedCreatePublished(p)
    \/ \E p \in 1..MaxProcs : SeedCreateDraft(p)
    \/ \E p \in 1..MaxProcs : SeedFindDoc(p)
    \/ \E p \in 1..MaxProcs : SeedCreateDoc(p)

SpecSeedRace == SeedRaceInit /\ [][SeedRaceNext]_vars

(***************************************************************************)
(* The session of one browser: the auth routes, GET /api/me (behind        *)
(* requireAuth) and GET /api/auth-status, sent with the cookies it holds.  *)
(***************************************************************************)
\* GET /api/me
Me ==
    /\ UNCHANGED <<storeVars, siteVars, users, cookies, adminMasterKey, nextToken>>
    /\ resp' = IF requireAuth(users, cookies) = {}
               THEN Response("me", cookies, 401, "Not authenticated")
               ELSE Response("me", cookies, 200, "")

\* GET /api/auth-status
AuthStatus ==
    /\ UNCHANGED <<storeVars, siteVars, users, cookies, adminMasterKey, nextToken>>
    /\ resp' = [op |-> "auth-status", req |-> cookies, status |-> 200, error |-> "",
                success |-> "absent",
                authenticated |-> cookies.user_name # <<>>,
                isAdmin |-> cookies.admin_auth = "true"]

SessionNext ==
    \/ AuthNext
    \/ Me
    \/ AuthStatus

SpecSession == AuthInit /\ [][SessionNext]_vars

(***************************************************************************)
(* Admin login with a master key kept in the content document.            *)
(***************************************************************************)
\* A content document that carries a master key.
KeyedDoc(key) == [body |-> "D", shape |-> "current", views |-> 0, masterKey |-> key]

\* The server with or without ADMIN_MASTER_KEY in the environment, and with
\* a content document that holds a master key or none.
AdminKeyInit ==
    /\ StoreIdle
    /\ follows = {}
    /\ posts = {}
    /\ procs = <<>>
    /\ dbModule = "single"
    /\ emailEnabled = FALSE
    /\ siteContent \in {<< KeyedDoc(<<>>) >>, << KeyedDoc(<<"k">>) >>}
    /\ users = ensureAdmin(<<>>)
    /\ cookies = NoCookies
    /\ resp = Response("none", <<>>, 0, "")
    /\ nextToken = 1
    /\ adminMasterKey \in MasterKeyConfigs

AdminKeyNext ==
    \/ \E body \in LoginBodies : Login(body)
    \/ Logout

SpecAdminKey == AdminKeyInit /\ [][AdminKeyNext]_vars

(***************************************************************************)
(* POST /api/resend-verification and POST /api/forgot-password.            *)
(***************************************************************************)
\* tooSoon: the last verification mail was sent less than 60 s ago.
ResendVerification(body, tooSoon) ==
    LET email == normalizeEmail(body.email)
        found == findByEmail(users, email)
    IN  /\ UNCHANGED <<storeVars, siteVars, cookies, adminMasterKey>>
        /\ IF email = <<>>
           THEN /\ resp' = Response("resend-verification", body, 400, "Email is required")
                /\ UNCHANGED <<users, nextToken>>
           ELSE IF found = {} \/ \E u \in found : u.isVerified
           THEN /\ resp' = Response("resend-verification", body, 200, "")
                /\ UNCHANGED <<users, nextToken>>
           ELSE IF tooSoon
           THEN /\ resp' = Response("resend-verification", body, 429,
                                     "Please wait before requesting another email.")
                /\ UNCHANGED <<users, nextToken>>
           ELSE \E user \in found, sendFails \in BOOLEAN, status \in {0, 500} :
                  /\ nextToken < MaxTokens
                  /\ users' = [users EXCEPT ![user.id].verificationTokenHash = nextToken]
                  /\ nextToken' = nextToken + 1
                  /\ resp' = IF sendMailSafe(emailEnabled, sendFails) = "returned"
                             THEN Response("resend-verification", body, 200, "")
                             ELSE Unhandled("resend-verification", body, status)

ForgotPassword(body) ==
    LET email == normalizeEmail(body.email)
        found == findByEmail(users, email)
    IN  /\ UNCHANGED <<storeVars, siteVars, cookies, adminMasterKey>>
        /\ IF email = <<>> \/ found = {}
           THEN /\ resp' = Response("forgot-password", body, 200, "")
                /\ UNCHANGED <<users, nextToken>>
           ELSE \E user \in found, sendFails \in BOOLEAN, status \in {0, 500} :
                  /\ nextToken < MaxTokens
                  /\ users' = [users EXCEPT ![user.id].resetTokenHash = nextToken]
                  /\ nextToken' = nextToken + 1
                  /\ resp' = IF sendMailSafe(emailEnabled, sendFails) = "returned"
                             THEN Response("forgot-password", body, 200, "")
                             ELSE Unhandled("forgot-password", body, status)

MailBodies == [email : {<<>>, <<"a">>, AdminEmail}]

\* The server with mail enabled or not; the admin is stored.
MailInit ==
    /\ StoreIdle
    /\ SiteIdle
    /\ dbModule = "single"
    /\ emailEnabled \in BOOLEAN
    /\ users = ensureAdmin(<<>>)
    /\ cookies = NoCookies
    /\ resp = Response("none", <<>>, 0, "")
    /\ nextToken = 1
    /\ adminMasterKey = <<"k">>

MailNext ==
    \/ \E body \in RegisterBodies : Register(body)
    \/ \E body \in MailBodies, tooSoon \in BOOLEAN : ResendVerification(body, tooSoon)
    \/ \E body \in MailBodies : ForgotPassword(body)

SpecMail == MailInit /\ [][MailNext]_vars

(***************************************************************************)
(* The admin form's change tracking (admin.js).  A content object has the  *)
(* top-level keys of ContentKeys, each absent or holding a value; a value  *)
(* is an atom or an object written as a list of key / value pairs in some  *)
(* order.  A key that is absent reads as undefined.                        *)
(***************************************************************************)
Atom(a) == [kind |-> "atom", atom |-> a, pairs |-> <<>>]

Obj(pairs) == [kind |-> "object", atom |-> "", pairs |-> pairs]

Undefined == [kind |-> "undefined", atom |-> "", pairs |-> <<>>]

ContentKeys == {"about", "hero"}

\* Object.keys(value).sort() for the keys in use.
SortedKeys == <<"about", "hero", "p", "q">>

ContentValues ==
    {Atom("1"), Atom("2"),
     Obj(<< <<"p", "1">>, <<"q", "2">> >>), Obj(<< <<"q", "2">>, <<"p", "1">> >>)}

ContentObjects == [ContentKeys -> ContentValues \cup {Undefined}]

\* The pairs of an object in the order of the sorted keys.
sortedPairs(pairs) ==
    LET at(key) == SelectSeq(pairs, LAMBDA pr : pr[1] = key)
    IN  at(SortedKeys[1]) \o at(SortedKeys[2]) \o at(SortedKeys[3]) \o at(SortedKeys[4])

\* stableStringify of a value: JSON.stringify of an atom (undefined for
\* undefined), the pairs in sorted key order for an object.
stableStringify(value) ==
    IF value.kind = "object" THEN << "{" >> \o sortedPairs(value.pairs)
    ELSE IF value.kind = "atom" THEN << "atom", value.atom >>
    ELSE << "undefined" >>

\* Object.keys(obj): the keys that are present.
ObjectKeys(obj) == {k \in DOMAIN obj : obj[k] # Undefined}

\* stableStringify of a content object: its present keys in sorted order,
\* each with the string of its value.
stableStringifyContent(obj) ==
    LET keys == SelectSeq(SortedKeys, LAMBDA k : k \in ObjectKeys(obj))
    IN  [i \in DOMAIN keys |-> << keys[i], stableStringify(obj[keys[i]]) >>]

isDirty(baseline, current) ==
    stableStringifyContent(baseline) # stableStringifyContent(current)

\* diffContent: for every key of either object whose values have different
\* strings, patch[key] = currentObj[key], which is undefined for a key that
\* current does not have.
diffContent(baseline, current) ==
    [key \in {k \in ObjectKeys(baseline) \cup ObjectKeys(current) :
                 stableStringify(baseline[k]) # stableStringify(current[k])} |-> current[key]]

\* JSON.stringify(patch): a key whose value is undefined is left out.
jsonStringify(patch) == [key \in {k \in DOMAIN patch : patch[k] # Undefined} |-> patch[key]]

FormState(pc, baseline, current, patch, body) ==
    [pc |-> pc, baseline |-> baseline, current |-> current, patch |-> patch, body |-> body]

FormIdle == UNCHANGED <<storeVars, httpVars, follows, siteContent, dbModule, emailEnabled, posts>>

\* The editor changes a field of the form, or takes it out.
EditForm(key, value) ==
    /\ FormIdle
    /\ procs' = FormState("editing", procs.baseline, [procs.current EXCEPT ![key] = value],
                          <<>>, <<>>)

\* window.saveContent up to the request: the patch and the body sent.
saveContent ==
    LET patch == diffContent(procs.baseline, procs.current)
    IN  /\ FormIdle
        /\ procs.pc = "editing"
        /\ procs' = FormState(IF DOMAIN patch = {} THEN "noChanges" ELSE "sent",
                              procs.baseline, procs.current, patch, jsonStringify(patch))

\* The admin page with any content loaded: baseline and current are copies.
FormInit ==
    /\ StoreIdle
    /\ HttpIdle
    /\ follows = {}
    /\ posts = {}
    /\ siteContent = <<>>
    /\ dbModule = "versioned"
    /\ emailEnabled = FALSE
    /\ \E loaded \in ContentObjects : procs = FormState("editing", loaded, loaded, <<>>, <<>>)

FormNext ==
    \/ \E key \in ContentKeys, value \in ContentValues \cup {Undefined} : EditForm(key, value)
    \/ saveContent

SpecForm == FormInit /\ [][FormNext]_vars

(***************************************************************************)
(* The save button of the admin page (admin.js).  The file holds two       *)
(* editors one after the other: the first (lines 1-908) tracks changes     *)
(* with updateDirtyState, the second (lines 910-1337) with                 *)
(* updateDirtyStatus and a saving flag.  A section of the content is       *)
(* absent or an object with the fields p and q.                            *)
(***************************************************************************)
FieldValues == {"", "1", "2"}

SectionFields == {"p", "q"}

\* Sections as the server can hold them: absent, or an object whose keys
\* come in either order.
SectionValues ==
    {Obj(<< <<"p", "1">>, <<"q", "2">> >>), Obj(<< <<"q", "2">>, <<"p", "1">> >>), Undefined}

LoadedContents == [ContentKeys -> SectionValues]

\* The section an editor writes where the content has none: empty fields.
SectionDefault == Obj(<< <<"p", "">>, <<"q", "">> >>)

\* readFormState of the first editor after populateForms: a section that is
\* present was written to the form fields and is read back from them, one
\* that is absent is built from the empty fields.
readFormState(c) ==
    [k \in DOMAIN c |-> IF c[k] = Undefined THEN SectionDefault ELSE c[k]]

\* ensureDefaults of the second editor: section ||= default.
ensureDefaults(c) ==
    [k \in DOMAIN c |-> IF c[k] = Undefined THEN SectionDefault ELSE c[k]]

\* JSON.stringify of a content object: present keys with their values, the
\* fields of a section in the order the object has them.  current and
\* baseline are clones of one object, so common keys come in one order.
jsonContent(c) == [k \in ObjectKeys(c) |-> c[k]]

\* isDirty of the second editor.
isDirtyJson(current, baseline) == jsonContent(current) # jsonContent(baseline)

Editor(pc, editor, baseline, current, saving, disabled, event) ==
    [pc |-> pc, editor |-> editor, baseline |-> baseline, current |-> current,
     saving |-> saving, disabled |-> disabled, event |-> event]

EmptyContent == [k \in ContentKeys |-> Undefined]

\* updateDirtyState of the first editor.
updateDirtyState(s, event) ==
    LET current == readFormState(s.current)
    IN  Editor("ready", s.editor, s.baseline, current, s.saving,
               ~isDirty(s.baseline, current), event)

\* updateDirtyStatus of the second editor.
updateDirtyStatus(s, event) ==
    Editor(s.pc, s.editor, s.baseline, s.current, s.saving,
           s.saving \/ ~isDirtyJson(s.current, s.baseline), event)

\* setSavingState(isSaving).
setSavingState(s, isSaving) ==
    [s EXCEPT !.saving = isSaving,
              !.disabled = isSaving \/ ~isDirtyJson(s.current, s.baseline)]

\* hydrateForm: ensureDefaults on currentContent, then updateDirtyStatus.
hydrateForm(s, event) ==
    updateDirtyStatus([s EXCEPT !.current = ensureDefaults(s.current)], event)

\* A field of a section set to a value.
setField(section, field, value) ==
    Obj([i \in DOMAIN section.pairs |->
            IF section.pairs[i][1] = field THEN <<field, value>> ELSE section.pairs[i]])

\* loadData of the first editor with the content GET /api/content answered.
loadData(data) ==
    /\ FormIdle
    /\ procs.pc = "loading"
    /\ procs.editor = "first"
    /\ procs' = updateDirtyState([procs EXCEPT !.current = data, !.baseline = data], "loaded")

\* window.updateArrayItem and its like in the first editor: currentContent
\* is changed, then updateDirtyState.
updateArrayItem(section, key, value) ==
    /\ FormIdle
    /\ procs.pc = "ready"
    /\ procs.editor = "first"
    /\ procs.current[section] # Undefined
    /\ procs' = updateDirtyState(
                   [procs EXCEPT !.current[section] = setField(@, key, value)], "edited")

\* loadContent of the second editor.
loadContent(data) ==
    /\ FormIdle
    /\ procs.pc = "loading"
    /\ procs.editor = "second"
    /\ procs' = hydrateForm([procs EXCEPT !.pc = "ready", !.current = data, !.baseline = data],
                            "loaded")

\* An input listener of the second editor: the setter, then updateDirtyStatus.
InputEdit(section, field, value) ==
    /\ FormIdle
    /\ procs.pc \in {"ready", "saving"}
    /\ procs.editor = "second"
    /\ procs' = updateDirtyStatus(
                   [procs EXCEPT !.current[section] = setField(@, field, value)], "edited")

\* saveContent of the second editor up to the request.
saveContentStart ==
    /\ FormIdle
    /\ procs.pc = "ready"
    /\ procs.editor = "second"
    /\ procs' = IF ~isDirtyJson(procs.current, procs.baseline)
                THEN [procs EXCEPT !.event = "noChanges"]
                ELSE [setSavingState(procs, TRUE) EXCEPT !.pc = "saving", !.event = "saving"]

\* saveContent of the second editor from the answer on: the server's content
\* becomes current and baseline when the request succeeded; the finally
\* block runs either way.
saveContentDone(ok, serverContent) ==
    LET answered == IF ok
                    THEN hydrateForm([procs EXCEPT !.current = serverContent,
                                                   !.baseline = serverContent], "saved")
                    ELSE [procs EXCEPT !.event = "saveFailed"]
    IN  /\ FormIdle
        /\ procs.pc = "saving"
        /\ procs.editor = "second"
        /\ procs' = [updateDirtyStatus(setSavingState(answered, FALSE), answered.event)
                        EXCEPT !.pc = "ready"]

\* resetUnsaved; the reset button is disabled while a save is in flight.
resetUnsaved ==
    /\ FormIdle
    /\ procs.pc = "ready"
    /\ procs.editor = "second"
    /\ procs' = hydrateForm([procs EXCEPT !.current = procs.baseline], "reset")

\* The page before its content has arrived, in either editor.
DirtyInit ==
    /\ StoreIdle
    /\ HttpIdle
    /\ follows = {}
    /\ posts = {}
    /\ siteContent = <<>>
    /\ dbModule = "versioned"
    /\ emailEnabled = FALSE
    /\ \E editor \in {"first", "second"} :
          procs = Editor("loading", editor, EmptyContent, EmptyContent, FALSE, FALSE, "none")

DirtyNext ==
    \/ \E data \in LoadedContents : loadData(data)
    \/ \E section \in ContentKeys, key \in SectionFields, value \in FieldValues :
          updateArrayItem(section, key, value)
    \/ \E data \in LoadedContents : loadContent(data)
    \/ \E section \in ContentKeys, field \in SectionFields, value \in FieldValues :
          InputEdit(section, field, value)
    \/ saveContentStart
    \/ \E ok \in BOOLEAN, serverContent \in LoadedContents : saveContentDone(ok, serverContent)
    \/ resetUnsaved

SpecDirty == DirtyInit /\ [][DirtyNext]_vars

(***************************************************************************)
(* GET /api/content as concurrent requests.  The handler awaits            *)
(* db.getContent() and, for a visitor, db.setContent(content): other       *)
(* requests run between the two.  One step is the handler up to the first  *)
(* await's answer and the counting, the next one the write and the answer. *)
(***************************************************************************)
GetProc(pc, jar, doc) == [pc |-> pc, jar |-> jar, doc |-> doc]

GetIdle == GetProc("idle", NoCookies, defaultContent)

\* GET /api/content up to await db.setContent: the document read, counted
\* for a visitor; the administrator is answered at once.
GetContentRead(p, jar) ==
    LET rs0 == connectDB(rows, nextId)
        found == dbGetContent(rs0)
    IN  /\ UNCHANGED <<last, calls, users, cookies, nextToken, adminMasterKey,
                       follows, dbModule, emailEnabled, posts, siteContent>>
        /\ procs[p].pc = "idle"
        /\ isConnected' = TRUE
        /\ rows' = rs0
        /\ nextId' = IdsAfter(rs0, nextId)
        /\ IF found = <<>>
           THEN /\ resp' = ContentError("GET /api/content", jar, 404, "Content not found")
                /\ UNCHANGED procs
           ELSE IF jar.admin_auth = "true"
           THEN /\ resp' = ContentResponse("GET /api/content", jar, 200, found)
                /\ UNCHANGED procs
           ELSE LET counted == [found[1] EXCEPT !.views = @ + 1]
                IN  /\ counted.views <= MaxViews
                    /\ procs' = [procs EXCEPT ![p] = GetProc("read", jar, counted)]
                    /\ UNCHANGED resp

\* GET /api/content from await db.setContent(content) on.
GetContentWrite(p) ==
    /\ UNCHANGED <<last, calls, users, cookies, nextToken, adminMasterKey,
                   follows, dbModule, emailEnabled, posts, isConnected>>
    /\ procs[p].pc = "read"
    /\ dbSetContent(rows, procs[p].doc)
    /\ resp' = ContentResponse("GET /api/content", procs[p].jar, 200, << procs[p].doc >>)
    /\ procs' = [procs EXCEPT ![p] = GetIdle]

\* The server of ContentInit with no request under way.
ContentRaceInit ==
    /\ dbModule \in {"versioned", "single"}
    /\ emailEnabled = FALSE
    /\ isConnected = TRUE
    /\ rows = IF dbModule = "versioned" THEN ensureContentSeed(<<>>, 1) ELSE <<>>
    /\ nextId = Len(rows) + 1
    /\ siteContent = IF dbModule = "versioned" THEN <<>> ELSE << defaultContent >>
    /\ last = Outcome("init", "", 0, defaultContent)
    /\ calls = [saves |-> 0, rollbacks |-> 0]
    /\ follows = {}
    /\ posts = {}
    /\ procs = [p \in 1..MaxProcs |-> GetIdle]
    /\ users = ensureAdmin(<<>>) \o Members(1)
    /\ cookies = NoCookies
    /\ resp = Response("none", <<>>, 0, "")
    /\ nextToken = 1
    /\ adminMasterKey = <<"k">>

ContentRaceNext ==
    \/ \E p \in 1..MaxProcs, jar \in Sessions(users) : GetContentRead(p, jar)
    \/ \E p \in 1..MaxProcs : GetContentWrite(p)
    \/ \E jar \in Sessions(users), body \in ContentBodies : PostApiContent(jar, body)

SpecContentRace == ContentRaceInit /\ [][ContentRaceNext]_vars

(***************************************************************************)
(* POST /api/admin/users/update: requireAuth, requireAdmin, then           *)
(* db.updateUser(userId, updates), which is $set of every field of updates *)
(* except _id and id.  userId 0 stands for a body without userId.          *)
(***************************************************************************)
UserUpdate(field, value) == [field |-> field, value |-> value]

\* The updates the admin page sends (isAdmin) and a flag it does not send.
UpdateInputs == {UserUpdate(f, v) : f \in {"isAdmin", "isVerified"}, v \in BOOLEAN}

\* updateOne({_id: id}, {$set: safeUpdates}) on the users.
updateUser(us, id, updates) ==
    [i \in DOMAIN us |->
        IF us[i].id # id THEN us[i]
        ELSE IF updates.field = "isAdmin" THEN [us[i] EXCEPT !.isAdmin = updates.value]
        ELSE [us[i] EXCEPT !.isVerified = updates.value]]

AdminUpdateUser(userId, updates) ==
    LET req == [jar |-> cookies, userId |-> userId, updates |-> updates]
        denied == requireAdmin(users, cookies)
    IN  /\ UNCHANGED <<storeVars, siteVars, cookies, adminMasterKey, nextToken>>
        /\ IF denied # 0
           THEN /\ resp' = Response("admin/users/update", req, denied,
                                     IF denied = 401 THEN "Not authenticated" ELSE "Admin only")
                /\ UNCHANGED users
           ELSE IF userId = 0
           THEN /\ resp' = Response("admin/users/update", req, 400, "Missing userId or updates")
                /\ UNCHANGED users
           ELSE /\ users' = updateUser(users, userId, updates)
                /\ resp' = Response("admin/users/update", req, 200, "")

\* The requests of one visitor and of the administrator: a registration, and
\* logins with the right and a wrong password.
VerifyRegisterBodies == [name : {<<"n">>}, email : {<<"a">>, <<" ", "A">>}, password : {<<"p">>}]

VerifyLoginBodies ==
    [email : {<<"a">>, <<" ", "A">>}, password : {<<"p">>, <<"q">>}, type : {"user"},
     masterKey : {<<>>}]
    \cup
    [email : {AdminEmail}, password : {AdminPassword}, type : {"admin"}, masterKey : {<<"k">>}]

\* The server after connectDB has seeded the admin account, with the master
\* key configured.
VerifyInit ==
    /\ StoreIdle
    /\ SiteIdle
    /\ dbModule = "single"
    /\ emailEnabled = FALSE
    /\ users = ensureAdmin(<<>>)
    /\ cookies = NoCookies
    /\ resp = Response("none", <<>>, 0, "")
    /\ nextToken = 1
    /\ adminMasterKey = <<"k">>

\* The account routes together with the administrator's user update.
VerifyNext ==
    \/ \E body \in VerifyRegisterBodies : Register(body)
    \/ \E token \in 0..nextToken : VerifyEmail(token)
    \/ \E body \in VerifyLoginBodies : Login(body)
    \/ Logout
    \/ \E userId \in 0..MaxUsers, updates \in UpdateInputs : AdminUpdateUser(userId, updates)

SpecVerify == VerifyInit /\ [][VerifyNext]_vars

(***************************************************************************)
(* POST /api/reset-password.  token 0 stands for a body without token;     *)
(* expired: resetTokenExpiresAt is not later than now.                     *)
(***************************************************************************)
MinPasswordLength == 8

\* A reset that leaves the token in place.
acceptReset_keepsToken(user, hash) == [user EXCEPT !.password = hash]

\* The fields the handler writes before user.save().
acceptReset(user, hash) == [user EXCEPT !.password = hash, !.resetTokenHash = 0]

ResetPassword(body, expired) ==
    LET token == body.token
        newPassword == trim(body.password)
        found == {u \in UserSet(users) : token # 0 /\ u.resetTokenHash = token /\ ~expired}
    IN  /\ UNCHANGED <<storeVars, siteVars, cookies, adminMasterKey, nextToken>>
        /\ IF token = 0 \/ newPassword = <<>>
           THEN /\ resp' = Response("reset-password", body, 400,
                                     "Token and new password are required.")
                /\ UNCHANGED users
           ELSE IF Len(newPassword) < MinPasswordLength
           THEN /\ resp' = Response("reset-password", body, 400,
                                     "Password must be at least 8 characters.")
                /\ UNCHANGED users
           ELSE IF found = {}
           THEN /\ resp' = Response("reset-password", body, 400, "Invalid or expired token.")
                /\ UNCHANGED users
           ELSE \E user \in found :
                  /\ users' = [users EXCEPT ![user.id] = acceptReset(@, bcryptHash(newPassword))]
                  /\ resp' = Response("reset-password", body, 200, "")

\* New passwords: none, one that is too short, and two of eight characters.
ResetPasswords ==
    { <<>>, <<"p">>, [i \in 1..MinPasswordLength |-> "p"], [i \in 1..MinPasswordLength |-> "q"] }

TokenRegisterBodies == [name : {<<"n">>}, email : {<<"a">>}, password : {<<"p">>}]

TokenMailBodies == [email : {<<"a">>, AdminEmail}]

\* The routes that issue tokens and the routes that take them.
TokenNext ==
    \/ \E body \in TokenRegisterBodies : Register(body)
    \/ \E body \in TokenMailBodies, tooSoon \in BOOLEAN : ResendVerification(body, tooSoon)
    \/ \E body \in TokenMailBodies : ForgotPassword(body)
    \/ \E token \in 0..MaxTokens : VerifyEmail(token)
    \/ \E token \in 0..MaxTokens, password \in ResetPasswords, expired \in BOOLEAN :
          ResetPassword([token |-> token, password |-> password], expired)

SpecToken == MailInit /\ [][TokenNext]_vars

(***************************************************************************)
(* Custom sections and the section order of the admin page (admin.js).    *)
(* An id is a string of characters.  Positions count from 1.               *)
(***************************************************************************)
MaxSections == 2

MaxClock == 2

MaxOrder == 4

CustomPrefix == <<"c", "u", "s", "t", "o", "m", "-">>

\* sectionId.startsWith('custom-')
startsWithCustom(id) ==
    Len(id) >= Len(CustomPrefix) /\ SubSeq(id, 1, Len(CustomPrefix)) = CustomPrefix

\* What the id field of a custom section can be changed to: an id of the
\* user's own, and one that starts with 'custom-'.
TypedIds == { <<"m", "y">>, CustomPrefix \o <<"x">> }

Titles == {"New Section", "t"}

CustomSection(id, title) == [id |-> id, title |-> title]

Layout(customSections, sectionOrder, clock, event) ==
    [customSections |-> customSections, sectionOrder |-> sectionOrder,
     clock |-> clock, event |-> event]

\* list.splice(index, 1)
splice(list, index) == [i \in 1..(Len(list) - 1) |-> IF i < index THEN list[i] ELSE list[i + 1]]

\* list.indexOf(x): the first position of x, 0 when there is none.
indexOf(list, x) ==
    IF \E i \in DOMAIN list : list[i] = x
    THEN CHOOSE i \in DOMAIN list : list[i] = x /\ \A j \in 1..(i - 1) : list[j] # x
    ELSE 0

\* The elements at the positions i and j change places.
swap(list, i, j) == [list EXCEPT ![i] = list[j], ![j] = list[i]]

\* window.addCustomSection; now is what Date.now() returns.
addCustomSection(now) ==
    LET id == CustomPrefix \o numberString(now)
    IN  /\ FormIdle
        /\ now >= procs.clock
        /\ Len(procs.customSections) < MaxSections
        /\ Len(procs.sectionOrder) < MaxOrder
        /\ procs' = Layout(Append(procs.customSections, CustomSection(id, "New Section")),
                           Append(procs.sectionOrder, id), now, "addCustomSection")

\* window.updateCustomSection(index, key, value)
updateCustomSection(index, key, value) ==
    /\ FormIdle
    /\ index \in DOMAIN procs.customSections
    /\ procs' = [procs EXCEPT !.customSections[index][key] = value,
                              !.event = "updateCustomSection"]

\* window.deleteCustomSection(index); confirmed is the answer to confirm().
deleteCustomSection(index, confirmed) ==
    LET id == procs.customSections[index].id
        orderIndex == indexOf(procs.sectionOrder, id)
    IN  /\ FormIdle
        /\ index \in DOMAIN procs.customSections
        /\ procs' = IF ~confirmed THEN [procs EXCEPT !.event = "deleteCancelled"]
                    ELSE Layout(splice(procs.customSections, index),
                                IF orderIndex > 0 THEN splice(procs.sectionOrder, orderIndex)
                                ELSE procs.sectionOrder,
                                procs.clock, "deleteCustomSection")

\* window.moveSectionUp(index)
moveSectionUp(index) ==
    /\ FormIdle
    /\ index \in DOMAIN procs.sectionOrder
    /\ procs' = IF index <= 1 THEN [procs EXCEPT !.event = "moveSectionUp"]
                ELSE [procs EXCEPT !.sectionOrder = swap(@, index, index - 1),
                                   !.event = "moveSectionUp"]

\* window.moveSectionDown(index)
moveSectionDown(index) ==
    /\ FormIdle
    /\ index \in DOMAIN procs.sectionOrder
    /\ procs' = IF index >= Len(procs.sectionOrder) THEN [procs EXCEPT !.event = "moveSectionDown"]
                ELSE [procs EXCEPT !.sectionOrder = swap(@, index, index + 1),
                                   !.event = "moveSectionDown"]

\* The page with content loaded that has two sections in its order and no
\* custom section.
LayoutInit ==
    /\ StoreIdle
    /\ HttpIdle
    /\ follows = {}
    /\ posts = {}
    /\ siteContent = <<>>
    /\ dbModule = "versioned"
    /\ emailEnabled = FALSE
    /\ procs = Layout(<<>>, << <<"h", "e", "r", "o">>, <<"a", "b", "o", "u", "t">> >>, 1, "loaded")

LayoutNext ==
    \/ \E now \in 1..MaxClock : addCustomSection(now)
    \/ \E index \in 1..MaxSections, value \in TypedIds :
          updateCustomSection(index, "id", value)
    \/ \E index \in 1..MaxSections, value \in Titles :
          updateCustomSection(index, "title", value)
    \/ \E index \in 1..MaxSections, confirmed \in BOOLEAN : deleteCustomSection(index, confirmed)
    \/ \E index \in 1..MaxOrder : moveSectionUp(index)
    \/ \E index \in 1..MaxOrder : moveSectionDown(index)

SpecLayout == LayoutInit /\ [][LayoutNext]_vars

(***************************************************************************)
(* Properties of the versioned store.                                      *)
(***************************************************************************)
RowIds(rs) == {rs[i].id : i \in DOMAIN rs}

RowSet(rs) == {rs[i] : i \in DOMAIN rs}

\* The largest version among the rows, stated on the rows themselves.
LargestVersion(rs) ==
    CHOOSE v \in {r.version : r \in RowSet(rs)} \cup {0} :
        \A r \in RowSet(rs) : r.version <= v

\* C1: with the calls run one at a time, at most one row is an active draft
\* and at most one row is an active published version.
C1_AtMostOneActive ==
    /\ Cardinality(ActiveRows(rows, "draft")) <= 1
    /\ Cardinality(ActiveRows(rows, "published")) <= 1

\* A rollback has completed after a publish, and one row of each kind is active.
C1_Witness ==
    /\ last.op = "rollbackToVersion" /\ last.error = ""
    /\ Len(PublishedRows(rows)) >= 3
    /\ Cardinality(ActiveRows(rows, "draft")) = 1
    /\ Cardinality(ActiveRows(rows, "published")) = 1

\* C5: a publishDraftContent call that finds the active draft D creates exactly
\* one row; it is published and active, holds the normalised data of D and has
\* the largest stored version plus one; the published rows that were active
\* are inactive afterwards; D is still the active draft with the same data.
C5_PublishStep ==
    [][ (publishDraftContent /\ last'.error = "") =>
          LET pre == connectDB(rows, nextId)
              created == {r \in RowSet(rows') : r.id \notin RowIds(pre)}
          IN  /\ Cardinality(created) = 1
              /\ \A D \in ActiveRows(pre, "draft") :
                   /\ \A r \in created :
                        /\ r.status = "published" /\ r.isActive
                        /\ r.data = normalizeContent(D.data)
                        /\ r.version = LargestVersion(pre) + 1
                   /\ \E r \in ActiveRows(rows', "draft") :
                        r.id = D.id /\ r.data = D.data
              /\ \A old \in ActiveRows(pre, "published") :
                   \A r \in RowSet(rows') : r.id = old.id => ~r.isActive
      ]_vars

\* A publish has completed that deactivated an earlier published row holding
\* other data than the draft just published.
C5_Witness ==
    /\ last.op = "publishDraftContent" /\ last.error = ""
    /\ \E r \in RowSet(rows) :
         r.status = "published" /\ ~r.isActive /\ r.data # last.doc
    /\ \E r \in ActiveRows(rows, "published") :
         r.data = last.doc /\ r.version = last.version

\* C6: after rollbackToVersion(v) has completed, a published row of version v
\* is in the store and getContent returns the data of that row.
C6_RollbackRestores ==
    (last.op = "rollbackToVersion" /\ last.error = "") =>
        /\ \E r \in RowSet(rows) : r.status = "published" /\ r.version = last.version
        /\ \A r \in RowSet(rows) :
             (r.status = "published" /\ r.version = last.version) =>
                 getContent(rows) = r.data

\* A rollback to a version whose data differs from what was published last.
C6_Witness ==
    /\ last.op = "rollbackToVersion" /\ last.error = ""
    /\ \E r \in RowSet(rows) :
         /\ r.status = "published" /\ ~r.isActive
         /\ r.version > last.version /\ r.data # last.doc
    /\ getContent(rows) = last.doc

\* C7: the store never holds more than HistoryLimit published rows.
C7_HistoryCapped == Len(PublishedRows(rows)) <= HistoryLimit

\* What the code keeps: a publish leaves at most HistoryLimit published rows.
C7_PublishPrunes ==
    (last.op = "publishDraftContent" /\ last.error = "") =>
        Len(PublishedRows(rows)) <= HistoryLimit

(***************************************************************************)
(* Properties of login and registration.                                   *)
(***************************************************************************)
\* The step is a POST /api/login that ended with the auth cookies set.
LoginIssued == resp'.op = "login" /\ resp'.status = 200

\* C2: admin rights are issued only by a login of type 'admin' whose master
\* key matched the configured one; a login of type 'user' never issues them.
C2_AdminOnlyByMasterKey ==
    [][ (LoginIssued /\ (cookies'.admin_auth = "true" \/ requireAdmin(users', cookies') = 0)) =>
          /\ resp'.req.type = "admin"
          /\ adminMasterKey # <<>>
          /\ trim(resp'.req.masterKey) = adminMasterKey
      ]_vars

\* C3, as the code has it: a login of type 'admin' whose master key is, once
\* trimmed, empty or different from the configured key is rejected and leaves
\* the cookies alone.
C3_AdminLoginNeedsKey ==
    [][ (resp'.op = "login" /\ resp'.req.type = "admin"
          /\ (trim(resp'.req.masterKey) = <<>> \/ trim(resp'.req.masterKey) # adminMasterKey)) =>
          (resp'.status >= 400 /\ cookies' = cookies)
      ]_vars

\* C3 as stated: the master key as submitted must equal the configured key.
C3_AsStated ==
    [][ (resp'.op = "login" /\ resp'.req.type = "admin"
          /\ (resp'.req.masterKey = <<>> \/ resp'.req.masterKey # adminMasterKey)) =>
          (resp'.status >= 400 /\ cookies' = cookies)
      ]_vars

\* The admin's email and password with a blank master key: rejected.
C3_Witness ==
    /\ resp.op = "login" /\ resp.req.type = "admin" /\ resp.status = 403
    /\ adminMasterKey # <<>>
    /\ resp.req.email = AdminEmail /\ resp.req.password = AdminPassword
    /\ resp.req.masterKey = <<" ">>
    /\ cookies = NoCookies

\* C4, as the code has it: a login whose password, once trimmed, does not
\* match the stored hash of the user named is answered with an error and
\* leaves the cookies alone, whatever the type.
C4_WrongPasswordRejected ==
    [][ resp'.op = "login" =>
          \A u \in findByEmail(users, toLowerCase(trim(resp'.req.email))) :
              ~bcryptCompare(trim(resp'.req.password), u.password) =>
                  (resp'.status >= 400 /\ cookies' = cookies)
      ]_vars

\* C4 as stated: the password as submitted does not match the stored hash.
C4_AsStated ==
    [][ resp'.op = "login" =>
          \A u \in findByEmail(users, toLowerCase(trim(resp'.req.email))) :
              ~bcryptCompare(resp'.req.password, u.password) =>
                  (resp'.status >= 400 /\ cookies' = cookies)
      ]_vars

\* An admin login with the right master key and a wrong password: 400.
C4_Witness ==
    /\ resp.op = "login" /\ resp.req.type = "admin" /\ resp.status = 400
    /\ adminMasterKey # <<>> /\ resp.req.masterKey = adminMasterKey
    /\ resp.req.email = AdminEmail /\ resp.req.password = <<"q">>
    /\ cookies = NoCookies

EdgesTo(oid) == {e \in follows : e[2] = oid}

EdgesFrom(oid) == {e \in follows : e[1] = oid}

Counts(us) == [i \in DOMAIN us |-> <<us[i].followersCount, us[i].followingCount>>]

\* The counters agree with the stored edges.
C9_CountsMatchEdges ==
    \A u \in UserSet(users) :
        /\ u.followersCount = Cardinality(EdgesTo(u.id))
        /\ u.followingCount = Cardinality(EdgesFrom(u.id))

\* The request just answered is a repeated follow, a self-follow or an
\* unfollow of a pair that is not following.
C9_NoOpRequest ==
    LET me == resp'.req.jar.user_id
        target == resp'.req.id.oid
    IN  /\ resp'.op \in {"follow", "unfollow"}
        /\ resp'.status # 401
        /\ isValidObjectId(resp'.req.id)
        /\ \/ resp'.op = "follow" /\ <<me, target>> \in follows
           \/ resp'.op = "follow" /\ me = target
           \/ resp'.op = "unfollow" /\ <<me, target>> \notin follows

\* C9: after any sequence of completed follow and unfollow requests every
\* user's followersCount is the number of stored edges to the user and the
\* followingCount the number of edges from the user; and a repeated follow of
\* the same pair, a self-follow and an unfollow of a pair that is not
\* following change no count.
C9_FollowCounts ==
    /\ [] C9_CountsMatchEdges
    /\ [][C9_NoOpRequest => Counts(users') = Counts(users)]_vars

(***************************************************************************)
(* Properties of /api/content.                                             *)
(***************************************************************************)
SameApartFromViews(a, b) == [a EXCEPT !.views = 0] = [b EXCEPT !.views = 0]

\* A successful save through POST /api/content is followed at once by a
\* read through GET /api/content.
C8_SaveThenRead ==
    /\ resp.op = "POST /api/content"
    /\ resp.status = 200
    /\ resp'.op = "GET /api/content"

\* C8: after an admin save of a content document C through /api/content has
\* succeeded, the next read through GET /api/content returns C, apart from
\* the analytics.totalViews counter.
C8_RoundTrip ==
    [][C8_SaveThenRead =>
          /\ resp'.status = 200
          /\ SameApartFromViews(resp'.body[1], resp.req.body.doc)]_vars

\* The round trip with the single-document store loaded.
C8_SingleStoreRoundTrip ==
    [][(C8_SaveThenRead /\ dbModule = "single") =>
          /\ resp'.status = 200
          /\ SameApartFromViews(resp'.body[1], resp.req.body.doc)]_vars

(***************************************************************************)
(* Properties of concurrent registration.                                  *)
(***************************************************************************)
\* C11: when POST /api/register requests for the same normalised email
\* interleave at their awaits, the store never holds two users with that
\* email.
C11_EmailUnique ==
    \A i, j \in DOMAIN users : users[i].email = users[j].email => i = j

\* Two requests passed the existence check for one email, one of them has
\* created its user and the other one has just been refused by the index.
C11_Witness ==
    /\ resp.op = "register"
    /\ resp.status = 500
    /\ findByEmail(users, normalizeEmail(resp.req.email)) # {}

(***************************************************************************)
(* Properties of the blog routes.                                          *)
(***************************************************************************)
\* C12: after any sequence of admin blog creations and retitling updates, no
\* two stored blog posts have the same slug, also when several posts are
\* given the same title.
C12_SlugsUnique ==
    \A q1, q2 \in posts : q1.slug = q2.slug => q1.id = q2.id

\* Two stored posts have the same title, and one post got a counter suffix.
C12_Witness ==
    /\ \E q1, q2 \in posts : q1.id # q2.id /\ q1.title = q2.title
    /\ \E q \in posts : q.slug = <<"a", "-", "3">>

\* The user the request just answered came from is stored.
BlogRequester == {u \in UserSet(users) : u.id = resp'.req.jar.user_id}

\* C13: blog posts are created, edited and deleted only by requests of an
\* authenticated user whose stored isAdmin flag is true: every other POST,
\* PATCH or DELETE on /api/admin/blog is answered 401 (no valid user_id
\* cookie or unknown user) or 403 (not admin) and leaves the blog post
\* collection unchanged.
C13_BlogAdminOnly ==
    [][resp'.op \in {"POST /api/admin/blog", "PATCH /api/admin/blog", "DELETE /api/admin/blog"} =>
          /\ BlogRequester = {} => (resp'.status = 401 /\ posts' = posts)
          /\ (BlogRequester # {} /\ \A u \in BlogRequester : ~u.isAdmin) =>
                (resp'.status = 403 /\ posts' = posts)
          /\ posts' # posts => \E u \in BlogRequester : u.isAdmin]_vars

\* A stored user who is not admin has been refused the deletion of a post.
C13_Witness ==
    /\ resp.op = "DELETE /api/admin/blog"
    /\ resp.status = 403
    /\ \E q \in posts : q.id = resp.req.id.oid

(***************************************************************************)
(* Properties of concurrent publishing.                                    *)
(***************************************************************************)
\* Two requests, one of them a publishDraftContent, have run and completed
\* without an error.
BothPublished ==
    /\ \E p \in DOMAIN procs :
          procs[p].pc = "done" /\ procs[p].op = "publishDraftContent" /\ procs[p].error = ""
    /\ Cardinality({p \in DOMAIN procs : procs[p].pc = "done" /\ procs[p].error = ""}) >= 2
    /\ \A p \in DOMAIN procs : procs[p].pc \in {"done", "idle"}

\* C14: when two publish operations (publishDraftContent with
\* publishDraftContent, or with rollbackToVersion) run as concurrent
\* requests and interleave at their awaits, then once both have completed
\* exactly one published row is active.
C14_OneActiveAfterBoth ==
    BothPublished => Cardinality(ActiveRows(rows, "published")) = 1

(***************************************************************************)
(* Properties of seeding.                                                  *)
(***************************************************************************)
\* Every caller of connectDB has returned.
AllConnected == \A p \in DOMAIN procs : procs[p].pc = "done"

\* The store holds a single seed.
SingleSeed ==
    IF dbModule = "versioned"
    THEN /\ Cardinality(ActiveRows(rows, "published")) = 1
         /\ Cardinality(ActiveRows(rows, "draft")) = 1
    ELSE Len(siteContent) = 1

\* A caller that looks for content and finds it goes on without a write.
FindsContentSeedsNothing ==
    \A p \in DOMAIN procs :
        (/\ procs[p].pc \in {"findDraft", "findDoc"}
         /\ procs'[p].pc # procs[p].pc
         /\ IF dbModule = "versioned"
            THEN procs[p].found \/ ActiveRows(rows, "draft") # {}
            ELSE siteContent # <<>>)
        => (procs'[p].pc = "done" /\ rows' = rows /\ siteContent' = siteContent)

\* C15: content is seeded at most once: when connectDB is entered by several
\* callers before the first connection has completed, the store still ends
\* with a single seed (one active published row and one active draft row in
\* the versioned store, one site_content document in the single-document
\* store); and a boot that finds content present seeds nothing.
C15_SeededOnce ==
    /\ [](AllConnected => SingleSeed)
    /\ [][FindsContentSeedsNothing]_vars

\* With the single-document store the content is seeded once.
C15_SingleStoreSeededOnce ==
    (AllConnected /\ dbModule = "single") => SingleSeed

(***************************************************************************)
(* Properties of the session.                                              *)
(***************************************************************************)
\* C16: after POST /api/logout the client holds none of the four auth
\* cookies, so until its next successful login every request it sends to an
\* endpoint behind requireAuth is answered 401 and GET /api/auth-status
\* reports authenticated = false and isAdmin = false.  Stated step by step:
\* a logout leaves no cookie, only a successful login gives cookies to a
\* client that has none, and a client that has none gets those answers.
C16_LoggedOutStays ==
    [][/\ resp'.op = "logout" => cookies' = NoCookies
       /\ (cookies = NoCookies /\ cookies' # NoCookies) =>
              (resp'.op = "login" /\ resp'.status = 200)
       /\ (cookies = NoCookies /\ resp'.op = "me") => resp'.status = 401
       /\ (cookies = NoCookies /\ resp'.op = "auth-status") =>
              (~resp'.authenticated /\ ~resp'.isAdmin)]_vars

\* A client that had logged in and out again has asked for /api/me.
C16_Witness ==
    /\ cookies = NoCookies
    /\ \E u \in UserSet(users) : u.lastLoginAt
    /\ resp.op = "me"
    /\ resp.status = 401

(***************************************************************************)
(* Properties of the master key source.                                    *)
(***************************************************************************)
\* The login just answered was an admin login with the admin's email and
\* password.
AdminCredentialsSent ==
    /\ resp'.op = "login"
    /\ resp'.req.type = "admin"
    /\ \E u \in findByEmail(users, toLowerCase(trim(resp'.req.email))) :
          /\ u.isAdmin
          /\ u.isVerified
          /\ u.password = bcryptHash(trim(resp'.req.password))

\* C17: the master key that admin login compares against is taken from the
\* environment or, when the environment provides none, from the content
\* document: with no environment master key, an admin login whose master key
\* equals the one in the content document is accepted.
C17_ContentKeyAccepted ==
    [][(/\ AdminCredentialsSent
        /\ adminMasterKey = <<>>
        /\ siteContent[1].masterKey # <<>>
        /\ resp'.req.masterKey = siteContent[1].masterKey)
       => resp'.status = 200]_vars

\* What the handler does: without an environment master key no admin login
\* is accepted.
C17_EnvironmentOnly ==
    [][(resp'.op = "login" /\ resp'.req.type = "admin" /\ adminMasterKey = <<>>)
       => resp'.status # 200]_vars

(***************************************************************************)
(* Properties of error answers.                                            *)
(***************************************************************************)
\* C18: every error response of the HTTP API (any 4xx or 5xx answer of an
\* /api route) is a JSON body with success = false and an error field.
C18_ErrorShape ==
    resp.status >= 400 => (resp.success = "false" /\ resp.error # "")

(***************************************************************************)
(* Properties of mail sending.                                             *)
(***************************************************************************)
\* C19: a failed email send is ignored: POST /api/register keeps the created
\* user and answers success, and the same holds for the token written by
\* /api/forgot-password and /api/resend-verification; no request fails
\* because of the mail transport.
C19_MailFailureIgnored ==
    [][/\ (resp'.op = "register" /\ Len(users') > Len(users)) =>
              (resp'.status = 200 /\ resp'.success = "true")
       /\ (resp'.op \in {"forgot-password", "resend-verification"} /\ users' # users) =>
              (resp'.status = 200 /\ resp'.success = "true")]_vars

\* With mail not enabled every request that wrote a user or a token is
\* answered with success.
C19_MailDisabledSucceeds ==
    [][(~emailEnabled /\ users' # users) => resp'.status = 200]_vars

(***************************************************************************)
(* Properties of the admin form's diff.                                    *)
(***************************************************************************)
\* Two values are the same JSON value: the same atom, or objects with the
\* same key / value pairs.
SameValue(a, b) ==
    /\ a.kind = b.kind
    /\ a.atom = b.atom
    /\ {a.pairs[i] : i \in DOMAIN a.pairs} = {b.pairs[i] : i \in DOMAIN b.pairs}

\* The shallow merge of the body of a PATCH onto an object.
shallowMerge(base, body) ==
    [k \in DOMAIN base |-> IF k \in DOMAIN body THEN body[k] ELSE base[k]]

Saved == procs.pc \in {"sent", "noChanges"}

DiffIsRight ==
    /\ DOMAIN procs.patch =
          {k \in ContentKeys : ~SameValue(procs.baseline[k], procs.current[k])}
    /\ \A k \in ContentKeys :
          SameValue(shallowMerge(procs.baseline, procs.body)[k], procs.current[k])
    /\ (DOMAIN procs.patch = {}) <=> ~isDirty(procs.baseline, procs.current)

\* C20: diffContent(baseline, current) holds exactly the top-level keys whose
\* values differ, and shallow-merging the patch, as it is sent in JSON, onto
\* baseline reproduces current, including when current lacks a key that
\* baseline has; the patch is empty exactly when isDirty is false.
C20_DiffMergeRoundTrip == Saved => DiffIsRight

\* The same when current has every key that baseline has.
C20_RoundTripWithoutRemovedKeys ==
    (Saved /\ ObjectKeys(procs.baseline) \subseteq ObjectKeys(procs.current)) => DiffIsRight

(***************************************************************************)
(* Properties of the save button.                                          *)
(***************************************************************************)
\* What the editor holds differs from the baseline, in the comparison the
\* editor at hand uses.
Differs(s) ==
    IF s.editor = "first" THEN isDirty(s.baseline, s.current)
    ELSE isDirtyJson(s.current, s.baseline)

\* C21 (as stated): once the content is loaded the save button is disabled
\* exactly when current equals baseline or a save is in flight, and it is
\* disabled after loading, after every successful save and after
\* resetUnsaved.
C21_SaveDisabledWhenClean ==
    /\ [](procs.pc # "loading" => (procs.disabled <=> (procs.saving \/ ~Differs(procs))))
    /\ [][procs'.event \in {"loaded", "saved", "reset"} => procs'.disabled]_vars

\* The part of C21 that holds: the button follows the comparison of current
\* with baseline and the saving flag.
C21_DisabledIffNotDirty ==
    procs.pc # "loading" => (procs.disabled <=> (procs.saving \/ ~Differs(procs)))

\* Content without one of the sections has been loaded and nothing edited.
C21_LoadedIncomplete ==
    /\ procs.event = "loaded"
    /\ \E k \in ContentKeys : procs.baseline[k] = Undefined

(***************************************************************************)
(* Properties of concurrent requests for content.                          *)
(***************************************************************************)
\* The content document the server serves from the rows rs or the single
\* document sc.
ServedContent(rs, sc) == IF dbModule = "versioned" THEN getContent(rs) ELSE sc[1]

\* A visitor's GET /api/content completes its write.
VisitorGetCompletes == \E p \in DOMAIN procs : procs[p].pc = "read" /\ procs'[p].pc = "idle"

\* C22: a visitor's GET /api/content changes nothing in the stored content
\* except adding exactly 1 to analytics.totalViews, also when an admin POST
\* /api/content completes between the GET's read and its write.
C22_GetOnlyCounts ==
    [][VisitorGetCompletes =>
          ServedContent(rows', siteContent') =
              [ServedContent(rows, siteContent) EXCEPT !.views = @ + 1]]_vars

\* The same for the single-document store alone.
C22_SingleStoreGetOnlyCounts ==
    [][(VisitorGetCompletes /\ dbModule = "single") =>
          ServedContent(rows', siteContent') =
              [ServedContent(rows, siteContent) EXCEPT !.views = @ + 1]]_vars

\* A visitor's GET has read the content and the administrator has saved
\* another document since.
C22_SavedBetweenReadAndWrite ==
    /\ dbModule = "single"
    /\ resp.op = "POST /api/content"
    /\ resp.status = 200
    /\ \E p \in DOMAIN procs :
          procs[p].pc = "read" /\ ~SameApartFromViews(procs[p].doc, siteContent[1])

(***************************************************************************)
(* Frame and error properties of the versioned store.  The rows before a   *)
(* call are the rows its connectDB leaves: what any caller can observe.    *)
(***************************************************************************)
\* C23: rollbackToVersion does not modify the active draft: its data, version
\* and isActive flag are the same after the rollback as before, so the draft
\* loaded after a rollback is the draft from before it.
C23_RollbackKeepsDraft ==
    [][ (\E v \in 1..MaxVersion : rollbackToVersion(v)) =>
          LET pre == connectDB(rows, nextId)
          IN  /\ ActiveRows(rows', "draft") = ActiveRows(pre, "draft")
              /\ getActiveContent(rows', "draft") = getActiveContent(pre, "draft")
      ]_vars

\* A rollback has completed while the active draft holds other data than the
\* version rolled back to.
C23_Witness ==
    /\ last.op = "rollbackToVersion" /\ last.error = ""
    /\ \E d \in ActiveRows(rows, "draft") : d.data # last.doc

\* C24: saveDraftContent changes only the active draft: no published row is
\* created, deleted or modified by it, so the content returned for status
\* 'published' is the same before and after a draft save.
C24_SaveKeepsPublished ==
    [][ (\E c \in DraftInputs : saveDraftContent(c)) =>
          LET pre == connectDB(rows, nextId)
          IN  /\ PublishedRows(rows') = PublishedRows(pre)
              /\ getActiveContent(rows', "published") = getActiveContent(pre, "published")
      ]_vars

\* A draft save has completed that wrote other data than the active
\* published row holds.
C24_Witness ==
    /\ last.op = "saveDraftContent" /\ last.error = ""
    /\ \E r \in RowSet(rows) : r.status = "published" /\ r.isActive /\ r.data # last.doc
    /\ \E d \in RowSet(rows) : d.status = "draft" /\ d.isActive /\ d.data = last.doc

\* C25: after any sequence of completed saveDraftContent, publishDraftContent
\* and rollbackToVersion calls, no two published rows have the same version
\* and the active published row has the largest version of all published
\* rows.
C25_PublishedVersionsUnique ==
    LET pub == PublishedRows(rows)
    IN  /\ \A i, j \in DOMAIN pub : pub[i].version = pub[j].version => i = j
        /\ \A i, j \in DOMAIN pub : pub[i].isActive => pub[j].version <= pub[i].version

\* A rollback to an earlier version has completed after a publish: three
\* published rows, the newest one active.
C25_Witness ==
    /\ last.op = "rollbackToVersion" /\ last.error = ""
    /\ Len(PublishedRows(rows)) >= 3
    /\ \E r \in RowSet(rows) : r.status = "published" /\ r.isActive /\ r.version > last.version

\* No row of rs is an active draft.
NoActiveDraft(rs) == \A r \in RowSet(rs) : ~(r.status = "draft" /\ r.isActive)

\* No published row of rs has the version v.
NoSuchVersion(rs, v) == \A r \in RowSet(rs) : ~(r.status = "published" /\ r.version = v)

\* C26: publishDraftContent called with no active draft fails with 'No active
\* draft found', and rollbackToVersion called with a version that no
\* published row has fails with 'Version not found'; in both cases no row is
\* created, deleted or modified.
C26_FailuresChangeNothing ==
    [][ LET pre == connectDB(rows, nextId)
        IN  /\ (publishDraftContent /\ NoActiveDraft(pre)) =>
                  (last'.error = "No active draft found" /\ rows' = pre)
            /\ \A v \in 1..MaxVersion :
                  (rollbackToVersion(v) /\ NoSuchVersion(pre, v)) =>
                      (last'.error = "Version not found" /\ rows' = pre)
      ]_vars

\* A publish has failed for want of a draft, and the active published row is
\* still there.
C26_Witness ==
    /\ last.op = "publishDraftContent" /\ last.error = "No active draft found"
    /\ NoActiveDraft(rows)
    /\ \E r \in RowSet(rows) : r.status = "published" /\ r.isActive

\* A rollback has failed for want of the version.
C26_RollbackFailed ==
    /\ last.op = "rollbackToVersion" /\ last.error = "Version not found"
    /\ rows # <<>>

(***************************************************************************)
(* Properties of e-mail verification.                                      *)
(***************************************************************************)
\* A POST /api/login for a stored user whose isVerified flag is false is
\* answered 403 and sets no cookie; a user that /api/register creates is
\* not verified.
C27_UnverifiedLoginRefused ==
    [][ /\ \A body \in VerifyLoginBodies :
              (Login(body) /\ \E u \in findByEmail(users, normalizeEmail(body.email)) :
                                   ~u.isVerified)
                  => (resp'.status = 403 /\ cookies' = cookies)
        /\ (resp'.op = "register" /\ Len(users') > Len(users)) =>
              ~users'[Len(users')].isVerified
      ]_vars

\* The step makes the user i verified.
BecomesVerified(i) == ~users[i].isVerified /\ users'[i].isVerified

\* C27: while a user's isVerified flag is false every POST /api/login for
\* that user is answered 403 and sets no auth cookie; a user created by
\* /api/register starts unverified and becomes verified only when
\* /api/verify-email accepts a token issued to that user.
C27_VerifiedOnlyByToken ==
    [][ /\ \A body \in VerifyLoginBodies :
              (Login(body) /\ \E u \in findByEmail(users, normalizeEmail(body.email)) :
                                   ~u.isVerified)
                  => (resp'.status = 403 /\ cookies' = cookies)
        /\ (resp'.op = "register" /\ Len(users') > Len(users)) =>
              ~users'[Len(users')].isVerified
        /\ \A i \in DOMAIN users :
              BecomesVerified(i) =>
                  /\ resp'.op = "verify-email" /\ resp'.status = 200
                  /\ resp'.req = users[i].verificationTokenHash
      ]_vars

\* A registered user has logged in although the verification token is still
\* unused.
C27_VerifiedWithoutToken ==
    \E u \in UserSet(users) : u.isVerified /\ u.verificationTokenHash # 0 /\ u.lastLoginAt

(***************************************************************************)
(* Properties of the emailed tokens.  Tokens are issued in the order 1, 2, *)
(* ...; nextToken is the first one not yet issued.                         *)
(***************************************************************************)
\* Token t has been issued and no user of us holds it any more: it has been
\* accepted, or another token has taken its place.
Spent(us, next, t) ==
    /\ t \in 1..(next - 1)
    /\ \A u \in UserSet(us) : u.verificationTokenHash # t /\ u.resetTokenHash # t

\* The token a request for verification or reset presents.
Presented(r) == IF r.op = "verify-email" THEN r.req ELSE r.req.token

C28_ResetReplayed ==
    /\ \E u \in UserSet(users) :
          u.password = bcryptHash([i \in 1..MinPasswordLength |-> "q"]) /\ u.resetTokenHash = 0
    /\ resp.op = "reset-password" /\ resp.status = 400
    /\ resp.error = "Invalid or expired token."
    /\ Spent(users, nextToken, resp.req.token)

(***************************************************************************)
(* Properties of POST /api/forgot-password.                                *)
(***************************************************************************)
\* The answer an e-mail address without account gets: 200 and the one
\* message, whatever the address.
NoAccountAnswer(body) == Response("forgot-password", body, 200, "")

\* C29: the response of POST /api/forgot-password (status code and body) is
\* the same for an email that belongs to a stored user and for one that does
\* not: every request gets the answer a request without account gets.
C29_ForgotSameAnswer ==
    [][resp'.op = "forgot-password" => resp' = NoAccountAnswer(resp'.req)]_vars

\* The same with mail switched off.
C29_SameAnswerMailDisabled ==
    [][(resp'.op = "forgot-password" /\ ~emailEnabled) => resp' = NoAccountAnswer(resp'.req)]_vars

\* A request for a stored user's address has been handled with mail enabled.
C29_ForgotForAccount ==
    /\ emailEnabled
    /\ resp.op = "forgot-password"
    /\ \E u \in findByEmail(users, normalizeEmail(resp.req.email)) : u.resetTokenHash # 0

(***************************************************************************)
(* Properties of the custom sections and the section order.                *)
(***************************************************************************)
\* The positions of list that hold x.
Occurrences(list, x) == {i \in DOMAIN list : list[i] = x}

\* Every id in sectionOrder that starts with 'custom-' is the id of a custom
\* section, and every custom section's id occurs in sectionOrder once.
OrderMatchesSections(s) ==
    /\ \A i \in DOMAIN s.sectionOrder :
          startsWithCustom(s.sectionOrder[i]) =>
              \E k \in DOMAIN s.customSections : s.customSections[k].id = s.sectionOrder[i]
    /\ \A k \in DOMAIN s.customSections :
          Cardinality(Occurrences(s.sectionOrder, s.customSections[k].id)) = 1

\* list2 holds the elements of list1, each as often.
IsPermutation(list1, list2) ==
    /\ Len(list1) = Len(list2)
    /\ \A i \in DOMAIN list1 :
          Cardinality(Occurrences(list1, list1[i])) = Cardinality(Occurrences(list2, list1[i]))

\* moveSectionUp and moveSectionDown only permute sectionOrder, leave the
\* custom sections alone, and do nothing at the first and the last position.
MovesPermute ==
    /\ \A index \in DOMAIN procs.sectionOrder :
          (moveSectionUp(index) \/ moveSectionDown(index)) =>
              /\ IsPermutation(procs.sectionOrder, procs'.sectionOrder)
              /\ procs'.customSections = procs.customSections
    /\ moveSectionUp(1) => procs'.sectionOrder = procs.sectionOrder
    /\ moveSectionDown(Len(procs.sectionOrder)) => procs'.sectionOrder = procs.sectionOrder

\* C30: after any sequence of addCustomSection, updateCustomSection,
\* deleteCustomSection, moveSectionUp and moveSectionDown, every id in
\* sectionOrder that starts with 'custom-' is the id of an existing custom
\* section and every custom section's id occurs in sectionOrder exactly
\* once; the moves only permute sectionOrder and do nothing at the first and
\* last position.
C30_OrderMatchesSections ==
    /\ [](OrderMatchesSections(procs))
    /\ [][MovesPermute]_vars

\* The part of C30 about the moves.
C30_MovesPermute == [][MovesPermute]_vars

\* The id of a custom section has been changed in its form.
C30_IdEdited ==
    /\ procs.event = "updateCustomSection"
    /\ \E k \in DOMAIN procs.customSections : procs.customSections[k].id \in TypedIds

====
